---- MODULE Spec2Model ----
(***************************************************************************)
(* Virtual filesystem layer of the snippet explorer: the in-memory store   *)
(* (MockFilesystemWrapper), the Move / Copy / Remove command handlers      *)
(* (SnippetExplorerCommandHandler.ts) and the message dispatch of          *)
(* SnippetExplorerHandler.onDidReceiveMessage, and the tracker of the     *)
(* active document (SnippetExplorerListenerHelper and the session state    *)
(* of SnippetViewHandler) that follows the events the handlers deliver.    *)
(*                                                                         *)
(* A path string is modelled as the sequence of its '/'-separated          *)
(* segments, so that string equality is sequence equality and              *)
(* q.startsWith(p + '/') is "p is a proper segment prefix of q".  Absolute *)
(* paths are the segment sequences below '/', virtual ("relative") paths   *)
(* start with the name of a configured folder.  The paths that messages    *)
(* carry are the ones the tree view holds: normalised, without empty, '.'  *)
(* or '..' segments, and the isFolder flag of a message is the type of the *)
(* node it names whenever that node exists.                                *)
(***************************************************************************)
EXTENDS Naturals, Integers, Sequences, FiniteSets, TLC

\* ---------------------------------------------------------------- bounds
\* longest virtual path (segments, root name included) the model lets exist
MaxDepth == 4
\* most entries below the configured folders the model lets exist
MaxEntries == 4
\* most Remove confirmation prompts pending at once
MaxPrompts == 1
\* most entries while a prompt or a destination check is followed (SpecPending)
PendingEntries == 2
\* most reload-or-keep prompts unanswered at once
MaxReloads == 1
\* most entries and longest virtual path while a document is tracked (SpecTracker)
TrackerEntries == 3
TrackerDepth == 4
\* most entries and longest virtual path while the two stores are compared (SpecStore)
StoreEntries == 3
StoreDepth == 3
\* longest virtual path given to the resolver (SpecPaths)
MaxParts == 4

\* ------------------------------------------------------- configuration
rootPath == <<"mock", "root">>
configPath == <<"mock", "root", "config.json">>

folders ==
  << [folder |-> "Drafts", mapping |-> <<"mock", "root", "Drafts">>],
     [folder |-> "LocalSpace", mapping |-> <<"mock", "root", "LocalSpace">>] >>

FolderNames == {folders[i].folder : i \in DOMAIN folders}

\* names the user gives to folders and snippet files
Names == {"a", "x.snippet"}

\* file contents: the template createSnippet writes, a saved document
TemplateContent == "template"
SavedContent == "doc"

\* ---------------------------------------------------------- path algebra
Front(s) == SubSeq(s, 1, Len(s) - 1)
Last(s) == s[Len(s)]

IsPrefix(p, q) == Len(p) <= Len(q) /\ SubSeq(q, 1, Len(p)) = p

\* q.startsWith(p + '/')
StartsWithSep(q, p) == Len(q) > Len(p) /\ SubSeq(q, 1, Len(p)) = p

\* this.folders.find(f => f.folder === name): index of the first match, 0 if none
FindFolder(name) ==
  IF \E i \in DOMAIN folders : folders[i].folder = name
  THEN CHOOSE i \in DOMAIN folders :
         /\ folders[i].folder = name
         /\ \A j \in DOMAIN folders : folders[j].folder = name => i <= j
  ELSE 0

\* toAbsolutePath throws on an empty path or an unknown first segment
toAbsolutePathThrows(rel) == rel = <<>> \/ FindFolder(rel[1]) = 0

toAbsolutePath(rel) == folders[FindFolder(rel[1])].mapping \o Tail(rel)

\* relativePath(from, to) of two normalised absolute paths
RECURSIVE CommonLen(_, _)
CommonLen(p, q) ==
  IF p = <<>> \/ q = <<>> \/ p[1] # q[1] THEN 0
  ELSE 1 + CommonLen(Tail(p), Tail(q))

relativePath(from, to) ==
  IF from = to THEN <<".">>
  ELSE LET c == CommonLen(from, to)
       IN  [i \in 1..(Len(from) - c) |-> ".."] \o SubSeq(to, c + 1, Len(to))

\* first configured folder whose mapping is the path or a '/'-prefix of it
MatchFolder(abs) ==
  IF \E i \in DOMAIN folders : IsPrefix(folders[i].mapping, abs)
  THEN CHOOSE i \in DOMAIN folders :
         /\ IsPrefix(folders[i].mapping, abs)
         /\ \A j \in DOMAIN folders : IsPrefix(folders[j].mapping, abs) => i <= j
  ELSE 0

\* toRelativePath of an absolute path
toRelativePath(abs) ==
  LET i == MatchFolder(abs)
  IN  IF i # 0
      THEN <<folders[i].folder>> \o SubSeq(abs, Len(folders[i].mapping) + 1, Len(abs))
      ELSE relativePath(rootPath, abs)

isRootFolder(rel) == Len(rel) = 1 /\ rel[1] \in FolderNames

dirnameFromPath(abs) == IF Len(abs) <= 1 THEN <<>> ELSE Front(abs)

basenameFromPath(abs) == IF abs = <<>> THEN "" ELSE Last(abs)

dirname(rel) == toRelativePath(dirnameFromPath(toAbsolutePath(rel)))

basename(rel) == basenameFromPath(toAbsolutePath(rel))

\* join(folder, name): each argument goes through toAbsolutePath when that
\* does not throw, the absolute results are joined and converted back
join(rel, name) ==
  LET a1 == IF toAbsolutePathThrows(rel) THEN rel ELSE toAbsolutePath(rel)
      a2 == IF toAbsolutePathThrows(<<name>>) THEN <<name>> ELSE toAbsolutePath(<<name>>)
  IN  toRelativePath(a1 \o a2)

\* ------------------------------------------------------ in-memory store
DirEntry == [isDirectory |-> TRUE, content |-> ""]
FileEntry(c) == [isDirectory |-> FALSE, content |-> c]

Put(cache, p, e) == [q \in (DOMAIN cache) \cup {p} |-> IF q = p THEN e ELSE cache[q]]
Delete(cache, p) == [q \in (DOMAIN cache) \ {p} |-> cache[q]]

\* ensurePathExists(path, isDirectory): missing ancestors become directories
RECURSIVE ensurePathExists(_, _, _)
ensurePathExists(cache, p, isDir) ==
  IF p \in DOMAIN cache THEN cache
  ELSE LET parent == dirnameFromPath(p)
           c1 == IF parent # <<>> /\ parent # p
                 THEN ensurePathExists(cache, parent, TRUE) ELSE cache
       IN  Put(c1, p, [isDirectory |-> isDir, content |-> ""])

\* the cache after the constructor: root path, config file, configured folders
RECURSIVE ensureFoldersExist(_, _)
ensureFoldersExist(cache, i) ==
  IF i > Len(folders) THEN cache
  ELSE ensureFoldersExist(ensurePathExists(cache, folders[i].mapping, TRUE), i + 1)

InitialCache ==
  ensureFoldersExist(
    Put(ensurePathExists(<<>>, rootPath, TRUE), configPath, FileEntry("config")),
    1)

exists(cache, rel) == ~toAbsolutePathThrows(rel) /\ toAbsolutePath(rel) \in DOMAIN cache

\* stat(rel).isDirectory(); stat throws when the entry is missing
statThrows(cache, rel) == ~exists(cache, rel)
isDirectory(cache, rel) == cache[toAbsolutePath(rel)].isDirectory

Children(cache, abs) == {p \in DOMAIN cache : StartsWithSep(p, abs)}

\* the loop "for (const child of children) { set(newPath, entry); delete(oldPath) }"
\* over the children collected (with their entries) from the cache snap
RECURSIVE MoveChildren(_, _, _, _, _)
MoveChildren(cache, snap, todo, oldAbs, newAbs) ==
  IF todo = {} THEN cache
  ELSE LET p == CHOOSE q \in todo : TRUE
           np == newAbs \o SubSeq(p, Len(oldAbs) + 1, Len(p))
       IN  MoveChildren(Delete(Put(cache, np, snap[p]), p), snap, todo \ {p}, oldAbs, newAbs)

\* rename of a directory: the new directory entry is set, the children
\* found under the old path are moved, the old entry is deleted
renameDirectory(c1, oldAbs, newAbs) ==
  Delete(MoveChildren(c1, c1, Children(c1, oldAbs), oldAbs, newAbs), oldAbs)

renameAbsolute(cache, oldAbs, newAbs) ==
  IF oldAbs \notin DOMAIN cache THEN [ok |-> FALSE, cache |-> cache]
  ELSE IF cache[oldAbs].isDirectory
  THEN [ok |-> TRUE, cache |-> renameDirectory(Put(cache, newAbs, DirEntry), oldAbs, newAbs)]
  ELSE [ok |-> TRUE, cache |-> Delete(Put(cache, newAbs, cache[oldAbs]), oldAbs)]

\* rename(old, new): [ok, cache]
rename(cache, old, new) ==
  IF toAbsolutePathThrows(old) \/ toAbsolutePathThrows(new)
  THEN [ok |-> FALSE, cache |-> cache]
  ELSE renameAbsolute(cache, toAbsolutePath(old), toAbsolutePath(new))

\* remove(path, recursive): [ok, cache]
remove(cache, rel, recursive) ==
  IF toAbsolutePathThrows(rel) THEN [ok |-> FALSE, cache |-> cache]
  ELSE LET abs == toAbsolutePath(rel)
       IN  IF abs \notin DOMAIN cache THEN [ok |-> FALSE, cache |-> cache]
           ELSE IF cache[abs].isDirectory
                THEN IF Children(cache, abs) # {} /\ ~recursive
                     THEN [ok |-> FALSE, cache |-> cache]
                     ELSE [ok |-> TRUE,
                           cache |-> [q \in (DOMAIN cache) \ (Children(cache, abs) \cup {abs})
                                        |-> cache[q]]]
                ELSE [ok |-> TRUE, cache |-> Delete(cache, abs)]

\* variant: only the entries directly in the folder are copied
copyFolderShallow(cache, src, dest) ==
  LET c1 == Put(cache, dest, DirEntry)
      kids == {p \in Children(c1, src) : Len(p) = Len(src) + 1}
      target(p) == dest \o SubSeq(p, Len(src) + 1, Len(p))
      added == {target(p) : p \in kids}
  IN  [q \in (DOMAIN c1) \cup added |->
         IF q \in added
         THEN LET p == CHOOSE k \in kids : target(k) = q
              IN  [isDirectory |-> c1[p].isDirectory, content |-> c1[p].content]
         ELSE c1[q]]

\* copyFolderRecursive(src, dest) on absolute paths
copyFolderRecursive(cache, src, dest) ==
  LET c1 == Put(cache, dest, DirEntry)
      kids == Children(c1, src)
      target(p) == dest \o SubSeq(p, Len(src) + 1, Len(p))
      added == {target(p) : p \in kids}
  IN  [q \in (DOMAIN c1) \cup added |->
         IF q \in added
         THEN LET p == CHOOSE k \in kids : target(k) = q
              IN  [isDirectory |-> c1[p].isDirectory, content |-> c1[p].content]
         ELSE c1[q]]

\* copy(source, dest): [ok, cache]
copy(cache, src, dst) ==
  IF toAbsolutePathThrows(src) \/ toAbsolutePathThrows(dst)
  THEN [ok |-> FALSE, cache |-> cache]
  ELSE LET srcAbs == toAbsolutePath(src)
           dstAbs == toAbsolutePath(dst)
       IN  IF srcAbs \notin DOMAIN cache THEN [ok |-> FALSE, cache |-> cache]
           ELSE IF cache[srcAbs].isDirectory
                THEN [ok |-> TRUE, cache |-> copyFolderRecursive(cache, srcAbs, dstAbs)]
                ELSE [ok |-> TRUE, cache |-> Put(cache, dstAbs, FileEntry(cache[srcAbs].content))]

\* mkdir(path, recursive): [ok, cache]
mkdir(cache, rel, recursive) ==
  IF toAbsolutePathThrows(rel) THEN [ok |-> FALSE, cache |-> cache]
  ELSE LET abs == toAbsolutePath(rel)
       IN  IF abs \in DOMAIN cache
           THEN [ok |-> cache[abs].isDirectory, cache |-> cache]
           ELSE IF recursive
                THEN [ok |-> TRUE, cache |-> ensurePathExists(cache, abs, TRUE)]
                ELSE IF dirnameFromPath(abs) \notin DOMAIN cache
                     THEN [ok |-> FALSE, cache |-> cache]
                     ELSE [ok |-> TRUE, cache |-> Put(cache, abs, DirEntry)]

\* writeFile(path, data): [ok, cache]; creates the missing parent directories
writeFile(cache, rel, data) ==
  IF toAbsolutePathThrows(rel) THEN [ok |-> FALSE, cache |-> cache]
  ELSE LET abs == toAbsolutePath(rel)
       IN  [ok |-> TRUE,
            cache |-> Put(ensurePathExists(cache, dirnameFromPath(abs), TRUE), abs, FileEntry(data))]

\* readFile(path): [ok, value]
readFile(cache, rel) ==
  IF toAbsolutePathThrows(rel) \/ toAbsolutePath(rel) \notin DOMAIN cache
  THEN [ok |-> FALSE, value |-> ""]
  ELSE IF cache[toAbsolutePath(rel)].isDirectory THEN [ok |-> FALSE, value |-> ""]
  ELSE [ok |-> TRUE, value |-> cache[toAbsolutePath(rel)].content]

\* ------------------------------------------------------ disk-backed store
\* SnippetorFilesystemsWrapper over node's fs.  The directory tree on disk
\* is written like the cache: absolute path -> entry.  Each fs call is
\* modelled by its documented outcome: [ok, cache], ok FALSE when it throws.

Thrown(t) == [ok |-> FALSE, cache |-> t]
Returned(t) == [ok |-> TRUE, cache |-> t]

\* the parent of the path exists and is a directory
ParentIsDirectory(t, abs) ==
  dirnameFromPath(abs) \in DOMAIN t /\ t[dirnameFromPath(abs)].isDirectory

\* some ancestor of the path exists and is a file
AncestorIsFile(t, abs) ==
  \E n \in 1..(Len(abs) - 1) :
    SubSeq(abs, 1, n) \in DOMAIN t /\ ~t[SubSeq(abs, 1, n)].isDirectory

\* the tree without the entry and everything under it
Without(t, abs) == [q \in {r \in DOMAIN t : ~IsPrefix(abs, r)} |-> t[q]]

\* fs.renameSync(old, new)
renameSync(t, old, new) ==
  IF old \notin DOMAIN t THEN Thrown(t)
  ELSE IF old = new THEN Returned(t)
  ELSE IF ~ParentIsDirectory(t, new) THEN Thrown(t)
  ELSE IF t[old].isDirectory /\ StartsWithSep(new, old) THEN Thrown(t)
  ELSE IF new \in DOMAIN t /\
          (t[new].isDirectory # t[old].isDirectory \/ Children(t, new) # {})
  THEN Thrown(t)
  ELSE LET moved == {q \in DOMAIN t : IsPrefix(old, q)}
           to(q) == new \o SubSeq(q, Len(old) + 1, Len(q))
           rest == Without(t, old)
       IN  Returned([q \in (DOMAIN rest) \cup {to(m) : m \in moved} |->
                       IF \E m \in moved : to(m) = q
                       THEN t[CHOOSE m \in moved : to(m) = q]
                       ELSE rest[q]])

\* fs.mkdirSync(path, {recursive})
mkdirSync(t, abs, recursive) ==
  IF recursive
  THEN IF abs \in DOMAIN t
       THEN (IF t[abs].isDirectory THEN Returned(t) ELSE Thrown(t))
       ELSE IF AncestorIsFile(t, abs) THEN Thrown(t)
       ELSE Returned(ensurePathExists(t, abs, TRUE))
  ELSE IF abs \in DOMAIN t \/ ~ParentIsDirectory(t, abs) THEN Thrown(t)
       ELSE Returned(Put(t, abs, DirEntry))

\* fs.writeFileSync(path, data)
writeFileSync(t, abs, data) ==
  IF abs \in DOMAIN t /\ t[abs].isDirectory THEN Thrown(t)
  ELSE IF ~ParentIsDirectory(t, abs) THEN Thrown(t)
  ELSE Returned(Put(t, abs, FileEntry(data)))

\* fs.copyFileSync(src, dest); a file copied onto itself is left as it is
copyFileSync(t, src, dest) ==
  IF src = dest THEN Returned(t)
  ELSE IF dest \in DOMAIN t /\ t[dest].isDirectory THEN Thrown(t)
  ELSE IF ~ParentIsDirectory(t, dest) THEN Thrown(t)
  ELSE Returned(Put(t, dest, FileEntry(t[src].content)))

\* SnippetorFilesystemsWrapper.copyFolderRecursiveSync; the entries that
\* readdirSync lists are taken one after the other, the first throw ends it
RECURSIVE copyFolderRecursiveSync(_, _, _)
RECURSIVE CopyEntriesSync(_, _, _)
CopyEntriesSync(t, todo, dest) ==
  IF todo = {} THEN Returned(t)
  ELSE LET e == CHOOSE q \in todo : TRUE
           r == IF t[e].isDirectory
                THEN copyFolderRecursiveSync(t, e, dest \o <<Last(e)>>)
                ELSE copyFileSync(t, e, dest \o <<Last(e)>>)
       IN  IF r.ok THEN CopyEntriesSync(r.cache, todo \ {e}, dest) ELSE r

copyFolderRecursiveSync(t, src, dest) ==
  LET made == IF dest \in DOMAIN t THEN Returned(t) ELSE mkdirSync(t, dest, TRUE)
  IN  IF ~made.ok THEN made
      ELSE CopyEntriesSync(made.cache,
                           {q \in DOMAIN made.cache : dirnameFromPath(q) = src}, dest)

\* SnippetorFilesystemsWrapper.exists
DiskExists(t, rel) == ~toAbsolutePathThrows(rel) /\ toAbsolutePath(rel) \in DOMAIN t

\* SnippetorFilesystemsWrapper.rename
DiskRename(t, old, new) ==
  IF toAbsolutePathThrows(old) \/ toAbsolutePathThrows(new) THEN Thrown(t)
  ELSE renameSync(t, toAbsolutePath(old), toAbsolutePath(new))

\* SnippetorFilesystemsWrapper.mkdir
DiskMkdir(t, rel, recursive) ==
  IF toAbsolutePathThrows(rel) THEN Thrown(t)
  ELSE mkdirSync(t, toAbsolutePath(rel), recursive)

\* SnippetorFilesystemsWrapper.writeFile
DiskWriteFile(t, rel, data) ==
  IF toAbsolutePathThrows(rel) THEN Thrown(t)
  ELSE writeFileSync(t, toAbsolutePath(rel), data)

\* SnippetorFilesystemsWrapper.readFile: [ok, value]
DiskReadFile(t, rel) ==
  IF ~DiskExists(t, rel) THEN [ok |-> FALSE, value |-> ""]
  ELSE IF t[toAbsolutePath(rel)].isDirectory THEN [ok |-> FALSE, value |-> ""]
  ELSE [ok |-> TRUE, value |-> t[toAbsolutePath(rel)].content]

\* SnippetorFilesystemsWrapper.remove: the recursive argument is not read
DiskRemove(t, rel, recursive) ==
  IF ~DiskExists(t, rel) THEN Thrown(t)
  ELSE IF t[toAbsolutePath(rel)].isDirectory
       THEN Returned(Without(t, toAbsolutePath(rel)))
       ELSE Returned(Delete(t, toAbsolutePath(rel)))

\* SnippetorFilesystemsWrapper.copy
DiskCopy(t, src, dst) ==
  IF toAbsolutePathThrows(src) \/ toAbsolutePathThrows(dst) THEN Thrown(t)
  ELSE IF toAbsolutePath(src) \notin DOMAIN t THEN Thrown(t)
  ELSE IF t[toAbsolutePath(src)].isDirectory
       THEN copyFolderRecursiveSync(t, toAbsolutePath(src), toAbsolutePath(dst))
       ELSE copyFileSync(t, toAbsolutePath(src), toAbsolutePath(dst))

\* ------------------------------------------------------ command handlers
NoError == ""

\* events as the listener receives them (absolute paths); settled tells
\* whether the cache already showed the reported change when it was delivered
Event(type, old, new, isFolder, settled) ==
  [type |-> type, old |-> old, new |-> new, isFolder |-> isFolder, settled |-> settled]

\* what a handler run leaves behind: the cache, the onCallback reply
\* (success, error), the events delivered and whether the physical step
\* (rename / copy / remove of the source) returned normally
Outcome(cache, success, error, events, done) ==
  [cache |-> cache, success |-> success, error |-> error, events |-> events, done |-> done]

Reject(cache, error) == Outcome(cache, FALSE, error, <<>>, FALSE)

\* variant: a root is accepted as the destination folder
checkSourceAndDestinationAnyFolder(source, destinationFolder, isFolder) ==
  IF isRootFolder(source) THEN "top-level"
  ELSE IF ~isFolder /\ isRootFolder(dirname(source)) THEN "drop-file-root"
  ELSE NoError

\* BaseCommandHandler.checkSourceAndDestinationPaths
checkSourceAndDestinationPaths(source, destinationFolder, isFolder) ==
  IF isRootFolder(source) THEN "top-level"
  ELSE IF isRootFolder(destinationFolder) THEN "drop-root"
  ELSE IF ~isFolder /\ isRootFolder(dirname(source)) THEN "drop-file-root"
  ELSE NoError

\* variant: the folder check compares for equality only
checkSourceDestinationEqualOnly(source, destination, isFolder) ==
  IF isFolder
  THEN IF source = destination THEN "into-itself" ELSE NoError
  ELSE IF dirname(source) = destination THEN "no-sort" ELSE NoError

\* BaseCommandHandler.checkSourceDestinationNotEqual
checkSourceDestinationNotEqual(source, destination, isFolder) ==
  IF isFolder
  THEN IF source = destination \/ StartsWithSep(destination, source)
       THEN "into-itself" ELSE NoError
  ELSE IF dirname(source) = destination THEN "no-sort" ELSE NoError

\* BaseCommandHandler.checkDestinationExistsAndIsDir
checkDestinationExistsAndIsDir(cache, destinationFolder) ==
  IF ~exists(cache, destinationFolder) THEN "dest-missing"
  ELSE IF ~isDirectory(cache, destinationFolder) THEN "dest-not-dir"
  ELSE NoError

\* MoveCommandHandler.checkFileMoveOverwrite
checkFileMoveOverwrite(cache, destination, overwrite) ==
  IF ~exists(cache, destination) THEN NoError
  ELSE IF isDirectory(cache, destination) THEN "type-mismatch"
  ELSE IF ~overwrite THEN "already-exists"
  ELSE NoError

\* variant: the overwrite flag settles the conflict whatever the types
checkFolderMoveOverwriteAnyType(cache, destination, overwrite) ==
  IF ~exists(cache, destination) THEN NoError
  ELSE IF ~overwrite THEN "already-exists"
  ELSE NoError

\* MoveCommandHandler.checkFolderMoveOverwrite
checkFolderMoveOverwrite(cache, destination, overwrite) ==
  IF ~exists(cache, destination) THEN NoError
  ELSE IF ~isDirectory(cache, destination) THEN "type-mismatch"
  ELSE IF ~overwrite THEN "already-exists"
  ELSE NoError

\* the destination path both handlers compute
Destination(source, destinationFolder) == join(destinationFolder, basename(source))

\* variant: the listener is told of a move whatever the overwrite flag
MoveEventsMovedOnly(cache, sourceAbsolute, destAbsolute, isFolder, overwrite) ==
  <<Event("Moved", sourceAbsolute, destAbsolute, isFolder,
          sourceAbsolute \notin DOMAIN cache /\ destAbsolute \in DOMAIN cache)>>

\* the listener call at the end of MoveCommandHandler.execute
MoveEvents(cache, sourceAbsolute, destAbsolute, isFolder, overwrite) ==
  IF overwrite
  THEN IF destAbsolute \in DOMAIN cache
       THEN <<Event("Overwrite", destAbsolute, <<>>, isFolder,
                    sourceAbsolute \notin DOMAIN cache)>>
       ELSE <<Event("Removed", destAbsolute, <<>>, isFolder, TRUE)>>
  ELSE <<Event("Moved", sourceAbsolute, destAbsolute, isFolder,
               sourceAbsolute \notin DOMAIN cache /\ destAbsolute \in DOMAIN cache)>>

\* MoveCommandHandler.execute, "Perform the move": rename, notify, reply
MovePerform(cache, renamed, source, destination, isFolder, overwrite) ==
  IF ~renamed.ok THEN Reject(cache, "io-failed")
  ELSE Outcome(renamed.cache, TRUE, NoError,
               MoveEvents(renamed.cache, toAbsolutePath(source), toAbsolutePath(destination),
                          isFolder, overwrite),
               TRUE)

\* MoveCommandHandler.execute, "Handle overwrite removal if needed"
MoveOverwrite(cache, removed, source, destination, isFolder, overwrite) ==
  IF ~removed.ok THEN Reject(cache, "remove-existing-failed")
  ELSE MovePerform(removed.cache, rename(removed.cache, source, destination),
                   source, destination, isFolder, overwrite)

\* MoveCommandHandler.execute, checks 1 to 5 in their order
MoveChecks(cache, source, destinationFolder, destination, isFolder, overwrite) ==
  IF checkSourceAndDestinationPaths(source, destinationFolder, isFolder) # NoError
  THEN checkSourceAndDestinationPaths(source, destinationFolder, isFolder)
  ELSE IF checkSourceDestinationNotEqual(source, destination, isFolder) # NoError
  THEN checkSourceDestinationNotEqual(source, destination, isFolder)
  ELSE IF checkDestinationExistsAndIsDir(cache, destinationFolder) # NoError
  THEN checkDestinationExistsAndIsDir(cache, destinationFolder)
  ELSE IF isFolder THEN checkFolderMoveOverwrite(cache, destination, overwrite)
  ELSE checkFileMoveOverwrite(cache, destination, overwrite)

MoveChecked(cache, checkError, source, destination, isFolder, overwrite) ==
  IF checkError # NoError THEN Reject(cache, checkError)
  ELSE MoveOverwrite(cache,
                     IF exists(cache, destination) /\ overwrite
                     THEN remove(cache, destination, TRUE)
                     ELSE [ok |-> TRUE, cache |-> cache],
                     source, destination, isFolder, overwrite)

MoveTo(cache, source, destinationFolder, destination, isFolder, overwrite) ==
  MoveChecked(cache,
              MoveChecks(cache, source, destinationFolder, destination, isFolder, overwrite),
              source, destination, isFolder, overwrite)

\* MoveCommandHandler.execute
MoveExecute(cache, source, destinationFolder, isFolder, overwrite) ==
  MoveTo(cache, source, destinationFolder, Destination(source, destinationFolder),
         isFolder, overwrite)

\* the listener call at the end of CopyCommandHandler.execute
CopyEvents(cache, destination, isFolder, overwrite) ==
  IF overwrite /\ exists(cache, destination)
  THEN <<Event("Overwrite", toAbsolutePath(destination), <<>>, isFolder, TRUE)>>
  ELSE <<>>

\* CopyCommandHandler.execute: copy, notify, reply
CopyPerform(cache, copied, destination, isFolder, overwrite) ==
  IF ~copied.ok THEN Reject(cache, "io-failed")
  ELSE Outcome(copied.cache, TRUE, NoError,
               CopyEvents(copied.cache, destination, isFolder, overwrite), TRUE)

\* CopyCommandHandler.execute, "Remove existing item before copying"
CopyOverwrite(cache, removed, source, destination, isFolder, overwrite) ==
  IF ~removed.ok THEN Reject(cache, "remove-existing-failed")
  ELSE CopyPerform(removed.cache, copy(removed.cache, source, destination),
                   destination, isFolder, overwrite)

\* variant: an occupied destination is no obstacle without the overwrite flag
CopyChecksNoConflict(cache, source, destination, isFolder, overwrite) ==
  IF isRootFolder(source) THEN "top-level"
  ELSE IF isFolder /\ (source = destination \/ StartsWithSep(destination, source))
  THEN "into-itself"
  ELSE IF exists(cache, destination) /\ isDirectory(cache, destination) # isFolder
  THEN "type-mismatch"
  ELSE NoError

\* CopyCommandHandler.execute, the checks before anything is touched
CopyChecks(cache, source, destination, isFolder, overwrite) ==
  IF isRootFolder(source) THEN "top-level"
  ELSE IF isFolder /\ (source = destination \/ StartsWithSep(destination, source))
  THEN "into-itself"
  ELSE IF exists(cache, destination) /\ isDirectory(cache, destination) # isFolder
  THEN "type-mismatch"
  ELSE IF exists(cache, destination) /\ ~overwrite THEN "already-exists"
  ELSE NoError

\* variant: the existing destination is removed before the checks are read
CopyCheckedAfterRemoval(cache, checkError, source, destination, isFolder, overwrite) ==
  IF checkError # NoError
  THEN Reject(IF exists(cache, destination)
              THEN remove(cache, destination, TRUE).cache ELSE cache,
              checkError)
  ELSE CopyOverwrite(cache,
                     IF exists(cache, destination)
                     THEN remove(cache, destination, TRUE)
                     ELSE [ok |-> TRUE, cache |-> cache],
                     source, destination, isFolder, overwrite)

CopyChecked(cache, checkError, source, destination, isFolder, overwrite) ==
  IF checkError # NoError THEN Reject(cache, checkError)
  ELSE CopyOverwrite(cache,
                     IF exists(cache, destination)
                     THEN remove(cache, destination, TRUE)
                     ELSE [ok |-> TRUE, cache |-> cache],
                     source, destination, isFolder, overwrite)

CopyTo(cache, source, destination, isFolder, overwrite) ==
  CopyChecked(cache, CopyChecks(cache, source, destination, isFolder, overwrite),
              source, destination, isFolder, overwrite)

\* CopyCommandHandler.execute
CopyExecute(cache, source, destinationFolder, isFolder, overwrite) ==
  CopyTo(cache, source, Destination(source, destinationFolder), isFolder, overwrite)

\* RemoveCommandHandler.execute, the 'Yes' branch: the listener is told,
\* then the entry is removed
RemoveConfirmed(cache, removed, absolutePath, isFolder) ==
  Outcome(removed.cache, removed.ok, IF removed.ok THEN NoError ELSE "io-failed",
          <<Event("Removed", absolutePath, <<>>, isFolder, absolutePath \notin DOMAIN cache)>>,
          removed.ok)

\* variant: the listener is told before the answer is looked at
RemoveExecuteToldFirst(cache, fullPath, isFolder, answer) ==
  IF toAbsolutePathThrows(fullPath) THEN Reject(cache, "io-failed")
  ELSE IF answer # "Yes"
  THEN Outcome(cache, TRUE, NoError,
               <<Event("Removed", toAbsolutePath(fullPath), <<>>, isFolder, FALSE)>>, FALSE)
  ELSE RemoveConfirmed(cache, remove(cache, fullPath, TRUE), toAbsolutePath(fullPath), isFolder)

\* RemoveCommandHandler.execute once the prompt is answered
RemoveExecute(cache, fullPath, isFolder, answer) ==
  IF answer # "Yes" THEN Outcome(cache, TRUE, NoError, <<>>, FALSE)
  ELSE IF toAbsolutePathThrows(fullPath) THEN Reject(cache, "io-failed")
  ELSE RemoveConfirmed(cache, remove(cache, fullPath, TRUE), toAbsolutePath(fullPath), isFolder)

\* ------------------------------------------- active document tracker
\* normalizePath: '.' segments dropped, '..' pops the segment before it
RECURSIVE ResolveParts(_, _)
ResolveParts(parts, resolved) ==
  IF parts = <<>> THEN resolved
  ELSE IF Head(parts) = "." THEN ResolveParts(Tail(parts), resolved)
  ELSE IF Head(parts) = ".."
  THEN ResolveParts(Tail(parts), IF resolved # <<>> THEN Front(resolved) ELSE resolved)
  ELSE ResolveParts(Tail(parts), Append(resolved, Head(parts)))

normalizePath(path) == ResolveParts(path, <<>>)

\* movePathRelativeTo(oldBase, filePath, newBase)
movePathRelativeTo(oldBase, filePath, newBase) ==
  normalizePath(newBase \o relativePath(oldBase, filePath))

\* relativePathWithSlashToAbsolute: the root path joined with the virtual path
relativePathWithSlashToAbsolute(rel) ==
  IF rel = <<>> THEN <<>> ELSE normalizePath(rootPath \o rel)

\* file contents JSON.parse accepts
IsJson(content) == content \in {TemplateContent, SavedContent, "config"}

\* The tracker and its session while a handler runs: the listener's
\* activeFile, the view handler's currentSnippetFullPath ('' is <<>>), what
\* the session has been told so far (signals) and the reload-or-keep prompts
\* raised (reloads).
Signal(t, s) == [t EXCEPT !.signals = Append(@, s)]

\* SnippetViewHandler.resetSnippetState
resetSnippetState(t) == [t EXCEPT !.current = <<>>, !.activeFile = <<>>]

\* SnippetViewHandler.closeSnippet
closeSnippet(t) == Signal(resetSnippetState(t), "close")

\* SnippetViewHandler.clearSnippets (the workingSnippet.close command)
clearSnippets(t) == Signal(t, "cleared")

\* SnippetViewHandler.sendActiveFileUpdate
sendActiveFileUpdate(t, newFileName) ==
  IF t.current # <<>> THEN Signal([t EXCEPT !.current = newFileName], "update") ELSE t

\* SnippetExplorerListenerHelper.isActiveFile
isActiveFile(t, fullPath) ==
  t.activeFile # <<>> /\ normalizePath(t.activeFile) = normalizePath(fullPath)

\* variant: only the rename of the document itself is followed
onNodeRenamedFileOnly(t, oldNode, newNode, isFolder) ==
  IF ~isFolder /\ isActiveFile(t, oldNode)
  THEN sendActiveFileUpdate([t EXCEPT !.activeFile = newNode], newNode)
  ELSE t

\* SnippetExplorerListenerHelper.onNodeRenamed
onNodeRenamed(t, oldNode, newNode, isFolder) ==
  IF isFolder
  THEN IF t.activeFile # <<>> /\ StartsWithSep(t.activeFile, oldNode)
       THEN sendActiveFileUpdate(
              [t EXCEPT !.activeFile = movePathRelativeTo(oldNode, t.activeFile, newNode)],
              movePathRelativeTo(oldNode, t.activeFile, newNode))
       ELSE t
  ELSE IF isActiveFile(t, oldNode)
       THEN sendActiveFileUpdate([t EXCEPT !.activeFile = newNode], newNode)
       ELSE t

\* variant: only the move of the document itself is followed
onNodeMovedFileOnly(t, oldNode, newNode, isFolder) ==
  IF ~isFolder /\ isActiveFile(t, oldNode)
  THEN sendActiveFileUpdate([t EXCEPT !.activeFile = newNode], newNode)
  ELSE t

\* SnippetExplorerListenerHelper.onNodeMoved
onNodeMoved(t, oldNode, newNode, isFolder) ==
  IF isFolder
  THEN IF t.activeFile # <<>> /\ StartsWithSep(t.activeFile, oldNode)
       THEN sendActiveFileUpdate(
              [t EXCEPT !.activeFile = movePathRelativeTo(oldNode, t.activeFile, newNode)],
              movePathRelativeTo(oldNode, t.activeFile, newNode))
       ELSE t
  ELSE IF isActiveFile(t, oldNode)
       THEN sendActiveFileUpdate([t EXCEPT !.activeFile = newNode], newNode)
       ELSE t

\* variant: only the removal of the document itself retires it
onNodeRemovedFileOnly(t, node, isFolder) ==
  IF t.activeFile = <<>> THEN t
  ELSE IF ~isFolder /\ normalizePath(node) = normalizePath(t.activeFile)
  THEN closeSnippet([Signal(t, "warning") EXCEPT !.activeFile = <<>>])
  ELSE t

\* SnippetExplorerListenerHelper.onNodeRemoved
onNodeRemoved(t, node, isFolder) ==
  IF t.activeFile = <<>> THEN t
  ELSE IF isFolder
  THEN IF StartsWithSep(normalizePath(t.activeFile), normalizePath(node))
       THEN closeSnippet([Signal(t, "warning") EXCEPT !.activeFile = <<>>])
       ELSE t
  ELSE IF normalizePath(node) = normalizePath(t.activeFile)
       THEN closeSnippet([Signal(t, "warning") EXCEPT !.activeFile = <<>>])
       ELSE t

\* the reload-or-keep dialog: raised, answered later
Prompt(t, relPath) == [Signal(t, "prompt") EXCEPT !.reloads = @ \cup {relPath}]

\* SnippetExplorerListenerHelper.onNodeOverwrite, with the cache at the
\* time the listener is called
onNodeOverwrite(t, cache, node, isFolder) ==
  IF isFolder
  THEN IF t.activeFile = <<>> THEN t
       ELSE IF StartsWithSep(normalizePath(t.activeFile), normalizePath(node))
       THEN IF exists(cache, toRelativePath(t.activeFile))
            THEN Prompt(t, toRelativePath(t.activeFile))
            ELSE closeSnippet([Signal(t, "warning") EXCEPT !.activeFile = <<>>])
       ELSE t
  ELSE IF isActiveFile(t, node) THEN Prompt(t, toRelativePath(node)) ELSE t

\* SnippetViewHandler.readSnippetFromFileItem: TRUE when it returns an error
readSnippetFails(cache, rel) ==
  \/ ~exists(cache, rel)
  \/ isDirectory(cache, rel)
  \/ ~IsJson(cache[toAbsolutePath(rel)].content)

\* variant: the listener is not told of the document loaded
loadSnippetFromJSONUntracked(t, failed, path) ==
  IF failed THEN Signal([t EXCEPT !.current = <<>>], "refresh")
  ELSE Signal([t EXCEPT !.current = relativePathWithSlashToAbsolute(path)], "refresh")

\* SnippetViewHandler.loadSnippetFromJSON
loadSnippetFromJSON(t, failed, path) ==
  IF failed THEN Signal([t EXCEPT !.current = <<>>], "refresh")
  ELSE Signal([t EXCEPT !.current = relativePathWithSlashToAbsolute(path),
                        !.activeFile = relativePathWithSlashToAbsolute(path)],
              "refresh")

\* SnippetExplorerListenerHelper.onNodeActivate
onNodeActivate(t, cache, nodePath, isFolder) ==
  IF ~isFolder THEN loadSnippetFromJSON(t, readSnippetFails(cache, nodePath), nodePath)
  ELSE t

\* one listener call
Notify(t, cache, e) ==
  IF e.type = "Renamed" THEN onNodeRenamed(t, e.old, e.new, e.isFolder)
  ELSE IF e.type = "Moved" THEN onNodeMoved(t, e.old, e.new, e.isFolder)
  ELSE IF e.type = "Removed" THEN onNodeRemoved(t, e.old, e.isFolder)
  ELSE onNodeOverwrite(t, cache, e.old, e.isFolder)

\* the listener calls of a handler run, in their order
RECURSIVE Deliver(_, _, _)
Deliver(t, cache, events) ==
  IF events = <<>> THEN t
  ELSE Deliver(Notify(t, cache, Head(events)), cache, Tail(events))


\* ---------------------------------------------------------------- state
VARIABLES
  fileCache,   \* MockFilesystemWrapper.fileCache: absolute path -> entry
  last,        \* the handler run that produced this state and what it replied
  prompts,     \* Remove commands waiting at their confirmation prompt
  checked,     \* the last checkDestination reply the tree view holds
  activeFile,  \* SnippetExplorerListenerHelper.activeFile ('' is <<>>)
  currentSnippetFullPath,  \* SnippetViewHandler.currentSnippetFullPath
  heard,       \* the tracker as the handler run found it, and what it signalled
  reloads      \* reload-or-keep prompts not yet answered

vars == <<fileCache, last, prompts, checked, activeFile, currentSnippetFullPath, heard, reloads>>

tracker == <<activeFile, currentSnippetFullPath, heard, reloads>>

\* virtual paths of at most MaxDepth segments
NameSeqs == UNION {[1..n -> Names] : n \in 0..(MaxDepth - 1)}
VPaths == {<<r>> \o s : r \in FolderNames, s \in NameSeqs}

\* the nodes the tree view shows
Nodes(cache) == {p \in VPaths : exists(cache, p)}

\* the paths a message can name: nodes of the tree and places directly
\* below them (a node that has just gone, a name not yet taken)
InputPaths(cache) ==
  {p \in VPaths : exists(cache, p) \/ (Len(p) > 1 /\ exists(cache, Front(p)))}

\* the folders a drop or paste can name: nodes of the tree (a file node
\* among them) and folders that have just gone
Targets(cache) ==
  {p \in InputPaths(cache) : exists(cache, p) \/ isDirectory(cache, Front(p))}

\* the isFolder flag the tree view sends for a node
NodeFlags(cache, p) == IF exists(cache, p) THEN {isDirectory(cache, p)} ELSE BOOLEAN

Entries(cache) == (DOMAIN cache) \ (DOMAIN InitialCache)

\* the configured folders are in place and every entry has a parent directory
TreeIntact(cache) ==
  /\ \A p \in DOMAIN InitialCache : p \in DOMAIN cache /\ cache[p] = InitialCache[p]
  /\ \A p \in Entries(cache) :
       dirnameFromPath(p) \in DOMAIN cache /\ cache[dirnameFromPath(p)].isDirectory

Bounded(cache) ==
  /\ Cardinality(Entries(cache)) <= MaxEntries
  /\ \A p \in DOMAIN cache : Len(toRelativePath(p)) <= MaxDepth

\* the command the tree view awaits the callback of (its callbackMap entry):
\* what was asked, the cache the handler found, and what the handler replied
Ran(op, source, target, isFolder, overwrite, before, out) ==
  [op |-> op, source |-> source, target |-> target, isFolder |-> isFolder,
   overwrite |-> overwrite, before |-> before, replied |-> TRUE,
   success |-> out.success, error |-> out.error, done |-> out.done, events |-> out.events]

\* no callback outstanding
Idle ==
  [op |-> "none", source |-> <<>>, target |-> <<>>, isFolder |-> FALSE,
   overwrite |-> FALSE, before |-> <<>>, replied |-> FALSE,
   success |-> FALSE, error |-> NoError, done |-> FALSE, events |-> <<>>]

\* a command is taken up when no callback is outstanding and the tree is
\* intact: a tree that lost a root or holds an orphan is a state of the
\* model, with no command followed from it
Ready == last = Idle /\ TreeIntact(fileCache)

NoCheck == [path |-> <<>>, exists |-> FALSE, isFolder |-> FALSE]

\* nothing heard: no handler run is being followed
NoHeard == [activeFile |-> <<>>, current |-> <<>>, signals |-> <<>>]

\* the tracker and its session as a handler run finds them
Session ==
  [activeFile |-> activeFile, current |-> currentSnippetFullPath,
   signals |-> <<>>, reloads |-> {}]

\* the tracker and its session as a handler run leaves them
Tracked(t) ==
  /\ Cardinality(reloads \cup t.reloads) <= MaxReloads
  /\ Len(t.activeFile) <= Len(rootPath) + TrackerDepth
  /\ activeFile' = t.activeFile
  /\ currentSnippetFullPath' = t.current
  /\ reloads' = reloads \cup t.reloads
  /\ heard' = [activeFile |-> activeFile, current |-> currentSnippetFullPath,
               signals |-> t.signals]

\* the listener is called with the events of a handler run
Listener(cache, events) == \E t \in {Deliver(Session, cache, events)} : Tracked(t)

Init ==
  /\ fileCache = InitialCache
  /\ last = Idle
  /\ prompts = {}
  /\ checked = NoCheck
  /\ activeFile = <<>>
  /\ currentSnippetFullPath = <<>>
  /\ heard = NoHeard
  /\ reloads = {}

\* case 'move'
Move(source, target, isFolder, overwrite) ==
  /\ \E out \in {MoveExecute(fileCache, source, target, isFolder, overwrite)} :
      /\ Bounded(out.cache)
      /\ fileCache' = out.cache
      /\ last' = Ran("move", source, target, isFolder, overwrite, fileCache, out)
      /\ Listener(out.cache, out.events)
      /\ UNCHANGED <<prompts, checked>>

\* case 'copy'
Copy(source, target, isFolder, overwrite) ==
  /\ \E out \in {CopyExecute(fileCache, source, target, isFolder, overwrite)} :
      /\ Bounded(out.cache)
      /\ fileCache' = out.cache
      /\ last' = Ran("copy", source, target, isFolder, overwrite, fileCache, out)
      /\ Listener(out.cache, out.events)
      /\ UNCHANGED <<prompts, checked>>

\* case 'remove', the prompt answered before any other message arrives
Remove(fullPath, isFolder, answer) ==
  /\ \E out \in {RemoveExecute(fileCache, fullPath, isFolder, answer)} :
      /\ Bounded(out.cache)
      /\ fileCache' = out.cache
      /\ last' = Ran("remove", fullPath, <<>>, isFolder, FALSE, fileCache, out)
      /\ Listener(out.cache, out.events)
      /\ UNCHANGED <<prompts, checked>>

\* case 'remove': the handler shows the modal prompt and suspends
RemoveRequest(fullPath, isFolder) ==
  /\ Cardinality(prompts) < MaxPrompts
  /\ prompts' = prompts \cup {[fullPath |-> fullPath, isFolder |-> isFolder]}
  /\ UNCHANGED <<fileCache, last, checked>>
  /\ UNCHANGED tracker

\* the prompt is answered ('Yes' or dismissed) and the handler resumes
RemoveAnswer(prompt, answer) ==
  /\ prompt \in prompts
  /\ \E out \in {RemoveExecute(fileCache, prompt.fullPath, prompt.isFolder, answer)} :
      /\ prompts' = prompts \ {prompt}
      /\ fileCache' = out.cache
      /\ last' = Ran("remove", prompt.fullPath, <<>>, prompt.isFolder, FALSE, fileCache, out)
      /\ Listener(out.cache, out.events)
      /\ UNCHANGED checked

\* case 'rename' of SnippetExplorerHandler.onDidReceiveMessage
RenameTo(cache, renamed, isDir, oldAbsolutePath, newRelativePath) ==
  IF ~renamed.ok THEN Reject(cache, "io-failed")
  ELSE Outcome(renamed.cache, TRUE, NoError,
               <<Event("Renamed", oldAbsolutePath, toAbsolutePath(newRelativePath), isDir,
                       oldAbsolutePath \notin DOMAIN renamed.cache
                         /\ toAbsolutePath(newRelativePath) \in DOMAIN renamed.cache)>>,
               TRUE)

RenameExecute(cache, oldRelativePath, newName) ==
  IF statThrows(cache, oldRelativePath) THEN Reject(cache, "io-failed")
  ELSE RenameTo(cache,
                rename(cache, oldRelativePath, dirname(oldRelativePath) \o <<newName>>),
                isDirectory(cache, oldRelativePath),
                toAbsolutePath(oldRelativePath),
                dirname(oldRelativePath) \o <<newName>>)

Rename(oldPath, newName) ==
  /\ \E out \in {RenameExecute(fileCache, oldPath, newName)} :
      /\ Bounded(out.cache)
      /\ fileCache' = out.cache
      /\ last' = Ran("rename", oldPath, <<newName>>, FALSE, FALSE, fileCache, out)
      /\ Listener(out.cache, out.events)
      /\ UNCHANGED <<prompts, checked>>

\* SnippetExplorerHandler.createFolder
Created(cache, made) ==
  IF ~made.ok THEN Reject(cache, "io-failed")
  ELSE Outcome(made.cache, TRUE, NoError, <<>>, TRUE)

CreateFolderExecute(cache, relPath) ==
  IF exists(cache, relPath) THEN Reject(cache, "folder-exists")
  ELSE Created(cache, mkdir(cache, relPath, FALSE))

CreateFolder(path) ==
  /\ \E out \in {CreateFolderExecute(fileCache, path)} :
      /\ Bounded(out.cache)
      /\ fileCache' = out.cache
      /\ last' = Ran("createFolder", path, <<>>, TRUE, FALSE, fileCache, out)
      /\ Listener(out.cache, out.events)
      /\ UNCHANGED <<prompts, checked>>

\* newPath.endsWith('.snippet') ? newPath : newPath + '.snippet'
WithSnippetExtension(name) == IF name = "x" THEN "x.snippet" ELSE name

\* SnippetExplorerHandler.createSnippet
CreateSnippetExecute(cache, folder, name) ==
  Created(cache, writeFile(cache, folder \o <<WithSnippetExtension(name)>>, TemplateContent))

CreateSnippet(folder, name) ==
  /\ \E out \in {CreateSnippetExecute(fileCache, folder, name)} :
      /\ Bounded(out.cache)
      /\ fileCache' = out.cache
      /\ last' = Ran("createSnippet", folder \o <<name>>, <<>>, FALSE, FALSE, fileCache, out)
      /\ Listener(out.cache, out.events)
      /\ UNCHANGED <<prompts, checked>>

\* SnippetViewHandler.saveSnippetToFile: the working snippet is written out
SaveSnippetExecute(cache, relPath) ==
  IF ~exists(cache, dirname(relPath)) THEN cache
  ELSE writeFile(cache, relPath, SavedContent).cache

SaveSnippet(path) ==
  /\ \E c \in {SaveSnippetExecute(fileCache, path)} : Bounded(c) /\ fileCache' = c
  /\ UNCHANGED <<last, prompts, checked>>
  /\ UNCHANGED tracker

\* SnippetExplorerHandler.checkDestination
CheckDestination(path) ==
  /\ checked' = [path |-> path, exists |-> exists(fileCache, path),
                 isFolder |-> exists(fileCache, path) /\ isDirectory(fileCache, path)]
  /\ last' = Ran("checkDestination", path, <<>>, FALSE, FALSE, fileCache,
                 Outcome(fileCache, TRUE, NoError, <<>>, FALSE))
  /\ Listener(fileCache, <<>>)
  /\ UNCHANGED <<fileCache, prompts>>

\* MessageManager 'onCallback': the tree view takes the reply it waited for
Callback ==
  /\ last # Idle
  /\ last.replied
  /\ last' = Idle
  /\ heard' = NoHeard
  /\ UNCHANGED <<fileCache, prompts, checked, activeFile, currentSnippetFullPath, reloads>>

Next ==
  \/ Ready /\ \E s \in Nodes(fileCache), t \in Targets(fileCache), o \in BOOLEAN :
       Move(s, t, isDirectory(fileCache, s), o)
  \/ Ready /\ \E s \in Nodes(fileCache), t \in Targets(fileCache), o \in BOOLEAN :
       Copy(s, t, isDirectory(fileCache, s), o)
  \/ Ready /\ \E p \in InputPaths(fileCache), answer \in {"Yes", "dismissed"} :
       \E f \in NodeFlags(fileCache, p) : Remove(p, f, answer)
  \/ Ready /\ \E p \in InputPaths(fileCache), n \in Names : Rename(p, n)
  \/ Ready /\ \E p \in InputPaths(fileCache) : CreateFolder(p)
  \/ Ready /\ \E d \in Nodes(fileCache), n \in {"x", "x.snippet"} : CreateSnippet(d, n)
  \/ Ready /\ \E p \in Nodes(fileCache) : ~isDirectory(fileCache, p) /\ SaveSnippet(p)
  \/ Callback

Spec == Init /\ [][Next]_vars

\* the commands again, on small trees, with what the tree view can leave
\* pending between two of them: a Remove prompt or a checkDestination
\* reply; one such prompt or reply is followed per run
Small(cache) == Cardinality(Entries(cache)) <= PendingEntries

NonePending == prompts = {} /\ checked = NoCheck

NextPending ==
  \/ Ready /\ NonePending /\ \E p \in InputPaths(fileCache) : CheckDestination(p)
  \/ Ready /\ NonePending /\ \E p \in Nodes(fileCache) :
       RemoveRequest(p, isDirectory(fileCache, p))
  \/ Ready /\ \E pr \in prompts, answer \in {"Yes", "dismissed"} : RemoveAnswer(pr, answer)
  \/ Ready /\ \E s \in Nodes(fileCache), t \in Nodes(fileCache), o \in BOOLEAN :
       Move(s, t, isDirectory(fileCache, s), o) /\ Small(fileCache')
  \/ Ready /\ \E s \in Nodes(fileCache), t \in Nodes(fileCache), o \in BOOLEAN :
       Copy(s, t, isDirectory(fileCache, s), o) /\ Small(fileCache')
  \/ Ready /\ \E p \in Nodes(fileCache) :
       Remove(p, isDirectory(fileCache, p), "Yes")
  \/ Ready /\ \E p \in InputPaths(fileCache) : CreateFolder(p) /\ Small(fileCache')
  \/ Ready /\ \E d \in Nodes(fileCache) : CreateSnippet(d, "x") /\ Small(fileCache')
  \/ Callback

SpecPending == Init /\ [][NextPending]_vars

\* ------------------------------------------------- commands and callbacks
\* every command of the tree view that carries a callbackId, followed to
\* its onCallback reply.  last.replied tells whether sendCallback has run;
\* a handler whose exception escapes onDidReceiveMessage posts none.  The
\* paths a message can carry include paths under a name that is no
\* configured root and the empty path.

StalePaths == {<<>>, <<"Work">>, <<"Work", "a">>}

CommandPaths(cache) == Nodes(cache) \cup StalePaths

\* the exception left onDidReceiveMessage: no callback is posted
Escaped(op, path) ==
  /\ last' = [Ran(op, path, <<>>, FALSE, FALSE, fileCache, Reject(fileCache, "io-failed"))
                EXCEPT !.replied = FALSE]
  /\ Listener(fileCache, <<>>)
  /\ UNCHANGED <<fileCache, prompts, checked>>

\* sendCallback(true, '', callbackId, data) of a query
Answered(op, path) ==
  /\ last' = Ran(op, path, <<>>, FALSE, FALSE, fileCache,
                 Outcome(fileCache, TRUE, NoError, <<>>, FALSE))
  /\ Listener(fileCache, <<>>)
  /\ UNCHANGED <<fileCache, prompts, checked>>

\* case 'ready'
ReadyCommand == Answered("ready", <<>>)

\* case 'expand': readDirectory resolves the path outside any try
ExpandCommand(path) ==
  IF toAbsolutePathThrows(path) THEN Escaped("expand", path) ELSE Answered("expand", path)

\* case 'rename': toAbsolutePath(oldRelativePath) runs before the try
RenameCommand(oldPath, newName) ==
  IF toAbsolutePathThrows(oldPath) THEN Escaped("rename", oldPath) ELSE Rename(oldPath, newName)

\* the tree view goes on after a command whose promise stays pending
Dropped ==
  /\ last # Idle
  /\ ~last.replied
  /\ last' = Idle
  /\ heard' = NoHeard
  /\ UNCHANGED <<fileCache, prompts, checked, activeFile, currentSnippetFullPath, reloads>>

NextCallback ==
  \/ Ready /\ ReadyCommand
  \/ Ready /\ \E p \in CommandPaths(fileCache) : ExpandCommand(p)
  \/ Ready /\ \E p \in CommandPaths(fileCache), n \in Names :
       RenameCommand(p, n) /\ Small(fileCache')
  \/ Ready /\ \E p \in CommandPaths(fileCache) : CheckDestination(p)
  \/ Ready /\ \E p \in CommandPaths(fileCache), answer \in {"Yes", "dismissed"} :
       Remove(p, exists(fileCache, p) /\ isDirectory(fileCache, p), answer)
  \/ Ready /\ \E s \in Nodes(fileCache), t \in Nodes(fileCache), o \in BOOLEAN :
       Move(s, t, isDirectory(fileCache, s), o) /\ Small(fileCache')
  \/ Ready /\ \E s \in Nodes(fileCache), t \in Nodes(fileCache), o \in BOOLEAN :
       Copy(s, t, isDirectory(fileCache, s), o) /\ Small(fileCache')
  \/ Ready /\ \E p \in InputPaths(fileCache) : CreateFolder(p) /\ Small(fileCache')
  \/ Ready /\ \E d \in Nodes(fileCache) : CreateSnippet(d, "x") /\ Small(fileCache')
  \/ Callback
  \/ Dropped

SpecCallback == Init /\ [][NextCallback]_vars

\* a view message that carries no callbackId: the handler run is followed
\* until the working-snippet view has taken the refresh it posts
Posted(op, path) ==
  [Ran(op, path, <<>>, FALSE, FALSE, fileCache,
       Outcome(fileCache, TRUE, NoError, <<>>, FALSE)) EXCEPT !.replied = FALSE]

\* case 'openFile': listener.onNodeActivate(relativePath, false)
Open(path) ==
  /\ Tracked(onNodeActivate(Session, fileCache, path, FALSE))
  /\ last' = Posted("openFile", path)
  /\ UNCHANGED <<fileCache, prompts, checked>>

\* case 'closeSnippet' of SnippetViewHandler.onDidReceiveMessage
CloseSnippet ==
  /\ Tracked(Signal(resetSnippetState(Session), "refresh"))
  /\ last' = Posted("closeSnippet", <<>>)
  /\ UNCHANGED <<fileCache, prompts, checked>>

\* the workingSnippet.close command
CloseCommand ==
  /\ Tracked(clearSnippets(Session))
  /\ last' = Posted("close", <<>>)
  /\ UNCHANGED <<fileCache, prompts, checked>>

\* the reload-or-keep prompt is answered: 'Reload' reads the file again
ReloadAnswered(t, relPath) ==
  /\ reloads' = reloads \ {relPath}
  /\ activeFile' = t.activeFile
  /\ currentSnippetFullPath' = t.current
  /\ heard' = [activeFile |-> activeFile, current |-> currentSnippetFullPath,
               signals |-> t.signals]

ReloadAnswer(relPath, answer) ==
  /\ relPath \in reloads
  /\ ReloadAnswered(IF answer = "Reload"
                    THEN loadSnippetFromJSON(Session, readSnippetFails(fileCache, relPath), relPath)
                    ELSE Session,
                    relPath)
  /\ last' = Posted(IF answer = "Reload" THEN "reload" ELSE "keep", relPath)
  /\ UNCHANGED <<fileCache, prompts, checked>>

\* the working-snippet view takes the 'updateSnippetList' message
UpdateSnippetList ==
  /\ last # Idle
  /\ ~last.replied
  /\ last' = Idle
  /\ heard' = NoHeard
  /\ UNCHANGED <<fileCache, prompts, checked, activeFile, currentSnippetFullPath, reloads>>

\* the commands with a document open in the working-snippet view
Compact(cache) ==
  /\ Cardinality(Entries(cache)) <= TrackerEntries
  /\ \A q \in DOMAIN cache : Len(toRelativePath(q)) <= TrackerDepth

\* the nodes the tree view lets the user drag, rename or delete, the
\* folders it lets the user drop on and the file nodes it lets the user
\* open (a file node that has just gone among them); a reload-or-keep
\* prompt is answered before the next message is followed
Items(cache) == {p \in Nodes(cache) : ~isRootFolder(p)}
Openable(cache) ==
  {p \in InputPaths(cache) : ~isRootFolder(p) /\ (exists(cache, p) => ~isDirectory(cache, p))}
Folders(cache) == {p \in Nodes(cache) : isDirectory(cache, p)}
Settled == Ready /\ reloads = {}

NextTracker ==
  \/ Settled /\ \E p \in Openable(fileCache) : Open(p)
  \/ Settled /\ CloseSnippet
  \/ Settled /\ CloseCommand
  \/ Ready /\ \E r \in reloads, answer \in {"Reload", "Keep Current"} : ReloadAnswer(r, answer)
  \/ UpdateSnippetList
  \/ Settled /\ \E s \in Items(fileCache), t \in Folders(fileCache), o \in BOOLEAN :
       Move(s, t, isDirectory(fileCache, s), o) /\ Compact(fileCache')
  \/ Settled /\ \E s \in Items(fileCache), t \in Folders(fileCache), o \in BOOLEAN :
       Copy(s, t, isDirectory(fileCache, s), o) /\ Compact(fileCache')
  \/ Settled /\ \E p \in Items(fileCache), answer \in {"Yes", "dismissed"} :
       Remove(p, isDirectory(fileCache, p), answer)
  \/ Settled /\ \E p \in Items(fileCache), n \in Names : Rename(p, n) /\ Compact(fileCache')
  \/ Settled /\ \E p \in Folders(fileCache) : CreateFolder(p \o <<"a">>) /\ Compact(fileCache')
  \/ Settled /\ \E d \in Folders(fileCache) : CreateSnippet(d, "x") /\ Compact(fileCache')
  \/ Callback

SpecTracker == Init /\ [][NextTracker]_vars

\* the working-snippet view while a reload-or-keep prompt is open: the
\* prompt is not awaited, so openFile and closeSnippet messages are taken
\* before it is answered
NextReload ==
  \/ Ready /\ \E p \in Openable(fileCache) : Open(p)
  \/ Ready /\ CloseSnippet
  \/ Ready /\ \E r \in reloads, answer \in {"Reload", "Keep Current"} : ReloadAnswer(r, answer)
  \/ UpdateSnippetList
  \/ Settled /\ \E s \in Items(fileCache), t \in Folders(fileCache), o \in BOOLEAN :
       Copy(s, t, isDirectory(fileCache, s), o) /\ Compact(fileCache')
  \/ Settled /\ \E p \in Folders(fileCache) : CreateFolder(p \o <<"a">>) /\ Compact(fileCache')
  \/ Settled /\ \E d \in Folders(fileCache) : CreateSnippet(d, "x") /\ Compact(fileCache')
  \/ Callback

SpecReload == Init /\ [][NextReload]_vars

\* ------------------------------------------------ copies of whole folders
\* One copy of a folder out of a store that createFolder, createSnippet,
\* the save of a snippet and rename have filled: up to five files, at
\* several depths, each holding the template or a saved document.

SeedFiles ==
  { <<"Drafts", "a", "x.snippet">>,
    <<"Drafts", "a", "a", "x.snippet">>,
    <<"Drafts", "a", "a", "a">>,
    <<"LocalSpace", "a", "x.snippet">>,
    <<"LocalSpace", "x.snippet", "a">> }

Absent == "absent"

\* the store after writeFile(p, holds[p]) for every seed file present
RECURSIVE Written(_, _, _)
Written(cache, todo, holds) ==
  IF todo = {} THEN cache
  ELSE LET p == CHOOSE q \in todo : TRUE
           c == IF holds[p] = Absent THEN cache
                ELSE writeFile(cache, p, holds[p]).cache
       IN  Written(c, todo \ {p}, holds)

SeedCaches ==
  {Written(InitialCache, SeedFiles, holds) :
     holds \in [SeedFiles -> {Absent, TemplateContent, SavedContent}]}

InitCopy ==
  /\ fileCache \in SeedCaches
  /\ last = Idle
  /\ prompts = {}
  /\ checked = NoCheck
  /\ activeFile = <<>>
  /\ currentSnippetFullPath = <<>>
  /\ heard = NoHeard
  /\ reloads = {}

\* SnippetExplorerHandler.onDidReceiveMessage, case 'copy', for a folder node
CopyFolder(source, target, overwrite) ==
  /\ \E out \in {CopyExecute(fileCache, source, target, TRUE, overwrite)} :
      /\ fileCache' = out.cache
      /\ last' = Ran("copy", source, target, TRUE, overwrite, fileCache, out)
      /\ Listener(out.cache, out.events)
      /\ UNCHANGED <<prompts, checked>>

NextCopy ==
  \/ Ready /\ fileCache \in SeedCaches /\
       \E s \in Items(fileCache) \cap Folders(fileCache), t \in Folders(fileCache),
          o \in BOOLEAN : CopyFolder(s, t, o)
  \/ Callback

SpecCopy == InitCopy /\ [][NextCopy]_vars

\* ------------------------------------------- the two stores side by side
\* One call of the store interface, made on the in-memory store and on the
\* disk-backed one with the same tree under both.  fileCache is the
\* in-memory store; last holds the call, what the in-memory store returned
\* (success, value) and what the disk-backed store returned and left (disk).
\* The next call is made once both have returned the same and left the
\* same tree.

StorePaths == {p \in VPaths : Len(p) <= StoreDepth}

StoreBounded(cache) ==
  /\ Cardinality(Entries(cache)) <= StoreEntries
  /\ \A q \in DOMAIN cache : Len(toRelativePath(q)) <= StoreDepth

Called(op, path, other, flag, data, m, value, d, dvalue) ==
  [op |-> op, source |-> path, target |-> other, isFolder |-> flag,
   overwrite |-> FALSE, before |-> fileCache, replied |-> TRUE,
   success |-> m.ok, error |-> NoError, done |-> m.ok, events |-> <<>>,
   data |-> data, value |-> value,
   disk |-> [ok |-> d.ok, cache |-> d.cache, value |-> dvalue]]

StoreCall(op, path, other, flag, data, m, value, d, dvalue) ==
  /\ StoreBounded(m.cache)
  /\ StoreBounded(d.cache)
  /\ fileCache' = m.cache
  /\ last' = Called(op, path, other, flag, data, m, value, d, dvalue)
  /\ UNCHANGED <<prompts, checked, tracker>>

Unread == "unread"

StoreExists(p) ==
  StoreCall("store.exists", p, <<>>, FALSE, "", Returned(fileCache), exists(fileCache, p),
            Returned(fileCache), DiskExists(fileCache, p))

\* stat(path).isDirectory()
StoreStat(p) ==
  StoreCall("store.stat", p, <<>>, FALSE, "",
            [ok |-> ~statThrows(fileCache, p), cache |-> fileCache],
            IF statThrows(fileCache, p) THEN FALSE ELSE isDirectory(fileCache, p),
            [ok |-> DiskExists(fileCache, p), cache |-> fileCache],
            IF DiskExists(fileCache, p) THEN isDirectory(fileCache, p) ELSE FALSE)

StoreReadFile(p) ==
  \E m \in {readFile(fileCache, p)}, d \in {DiskReadFile(fileCache, p)} :
    StoreCall("store.readFile", p, <<>>, FALSE, "",
              [ok |-> m.ok, cache |-> fileCache], m.value,
              [ok |-> d.ok, cache |-> fileCache], d.value)

StoreWriteFile(p, data) ==
  \E m \in {writeFile(fileCache, p, data)}, d \in {DiskWriteFile(fileCache, p, data)} :
    StoreCall("store.writeFile", p, <<>>, FALSE, data, m, Unread, d, Unread)

StoreMkdir(p, recursive) ==
  \E m \in {mkdir(fileCache, p, recursive)}, d \in {DiskMkdir(fileCache, p, recursive)} :
    StoreCall("store.mkdir", p, <<>>, recursive, "", m, Unread, d, Unread)

StoreRemove(p, recursive) ==
  \E m \in {remove(fileCache, p, recursive)}, d \in {DiskRemove(fileCache, p, recursive)} :
    StoreCall("store.remove", p, <<>>, recursive, "", m, Unread, d, Unread)

StoreCopy(p, q) ==
  \E m \in {copy(fileCache, p, q)}, d \in {DiskCopy(fileCache, p, q)} :
    StoreCall("store.copy", p, q, FALSE, "", m, Unread, d, Unread)

StoreRename(p, q) ==
  \E m \in {rename(fileCache, p, q)}, d \in {DiskRename(fileCache, p, q)} :
    StoreCall("store.rename", p, q, FALSE, "", m, Unread, d, Unread)

\* both stores have returned the same and hold the same tree
StoreAgree ==
  /\ last.disk.ok = last.success
  /\ last.disk.value = last.value
  /\ last.disk.cache = fileCache

StoreReturn ==
  /\ last # Idle
  /\ StoreAgree
  /\ last' = Idle
  /\ UNCHANGED <<fileCache, prompts, checked, tracker>>

\* a copy of a folder to a place inside itself, or onto a folder it is
\* inside of, is not called: neither loop over the growing tree is followed
Apart(p, q) == ~StartsWithSep(p, q) /\ ~StartsWithSep(q, p)

NextStore ==
  \/ Ready /\ \E p \in StorePaths : StoreExists(p)
  \/ Ready /\ \E p \in StorePaths : StoreStat(p)
  \/ Ready /\ \E p \in StorePaths : StoreReadFile(p)
  \/ Ready /\ \E p \in StorePaths, data \in {TemplateContent, SavedContent} :
       StoreWriteFile(p, data)
  \/ Ready /\ \E p \in StorePaths, r \in BOOLEAN : StoreMkdir(p, r)
  \/ Ready /\ \E p \in StorePaths, r \in BOOLEAN : StoreRemove(p, r)
  \/ Ready /\ \E p \in StorePaths, q \in StorePaths : Apart(p, q) /\ StoreCopy(p, q)
  \/ Ready /\ \E p \in StorePaths, q \in StorePaths : StoreRename(p, q)
  \/ StoreReturn

SpecStore == Init /\ [][NextStore]_vars

\* ------------------------------------------------------- the path resolver
\* toAbsolutePath and toRelativePath under a configured list of roots.  A
\* virtual path is given as the parts that split('/') leaves once the empty
\* ones are dropped; '.' and '..' are parts like any other until
\* normalizePath resolves them.

\* this.folders.find(f => f.folder === name) in the list fs
FindFolderIn(fs, name) ==
  IF \E i \in DOMAIN fs : fs[i].folder = name
  THEN CHOOSE i \in DOMAIN fs :
         /\ fs[i].folder = name
         /\ \A j \in DOMAIN fs : fs[j].folder = name => i <= j
  ELSE 0

toAbsolutePathThrowsIn(fs, parts) == parts = <<>> \/ FindFolderIn(fs, parts[1]) = 0

\* subPath ? joinPaths(folder.mapping, subPath) : folder.mapping
toAbsolutePathIn(fs, parts) ==
  LET mapping == fs[FindFolderIn(fs, parts[1])].mapping
  IN  IF Tail(parts) = <<>> THEN mapping ELSE normalizePath(mapping \o Tail(parts))

\* the first root of the list whose mapping is the path or a '/'-prefix of it
MatchFolderIn(fs, abs) ==
  IF \E i \in DOMAIN fs : IsPrefix(normalizePath(fs[i].mapping), abs)
  THEN CHOOSE i \in DOMAIN fs :
         /\ IsPrefix(normalizePath(fs[i].mapping), abs)
         /\ \A j \in DOMAIN fs : IsPrefix(normalizePath(fs[j].mapping), abs) => i <= j
  ELSE 0

\* variant: no root is matched, the path is taken relative to the root path
toRelativePathFallback(fs, abs) == relativePath(rootPath, normalizePath(abs))

toRelativePathIn(fs, abs) ==
  LET normalized == normalizePath(abs)
      i == MatchFolderIn(fs, normalized)
  IN  IF i # 0
      THEN IF normalized = normalizePath(fs[i].mapping) THEN <<fs[i].folder>>
           ELSE <<fs[i].folder>> \o relativePath(normalizePath(fs[i].mapping), normalized)
      ELSE relativePath(rootPath, normalized)

Root(name, dir) == [folder |-> name, mapping |-> rootPath \o dir]

\* lists of roots a config.json can hold: the default one, roots named
\* unlike their directories, a root inside another, two names for one
\* directory, one name twice
RootSets ==
  { folders,
    <<Root("Work", <<"w">>), Root("Drafts", <<"d">>)>>,
    <<Root("Drafts", <<"Drafts">>), Root("Work", <<"Drafts", "a">>)>>,
    <<Root("Drafts", <<"Drafts">>), Root("Work", <<"Drafts">>)>>,
    <<Root("Drafts", <<"Drafts">>), Root("Drafts", <<"LocalSpace">>)>> }

RawParts == {"Drafts", "Work", "a", ".", ".."}
RawPaths == UNION {[1..n -> RawParts] : n \in 1..MaxParts}

Resolved(fs, parts, thrown, absolute) ==
  [op |-> "toAbsolutePath", source |-> parts, target |-> <<>>, isFolder |-> FALSE,
   overwrite |-> FALSE, before |-> fileCache, replied |-> TRUE,
   success |-> ~thrown, error |-> NoError, done |-> FALSE, events |-> <<>>,
   folders |-> fs, absolute |-> absolute,
   relative |-> IF thrown THEN <<>> ELSE toRelativePathIn(fs, absolute)]

\* toAbsolutePath(path), and toRelativePath of what it returned
Resolve(fs, parts) ==
  /\ last = Idle
  /\ last' = Resolved(fs, parts, toAbsolutePathThrowsIn(fs, parts),
                      IF toAbsolutePathThrowsIn(fs, parts) THEN <<>>
                      ELSE toAbsolutePathIn(fs, parts))
  /\ UNCHANGED <<fileCache, prompts, checked, tracker>>

NextPaths == \E fs \in RootSets, parts \in RawPaths : Resolve(fs, parts)

SpecPaths == Init /\ [][NextPaths]_vars

\* ------------------------------------------------------ the configuration
\* config.json and the list of roots in effect (this.folders).  The content
\* of config.json is a name; ParseConfig tells what JSON.parse and the shape
\* check make of it.  In this specification last carries the list in effect
\* (folders), the last list loaded from a valid configuration (good), the
\* ConfigLoadResult (result) and the dialog shown.

getDefaultFolders == folders

CustomFolders == <<Root("Work", <<"w">>)>>
TwiceFolders == <<Root("Drafts", <<"Drafts">>), Root("Drafts", <<"LocalSpace">>)>>

\* JSON.stringify(folders) as the constructor stores it
StringifyConfig(fs) == IF fs = getDefaultFolders THEN "config" ELSE "cfg.custom"

ConfigContents == {"config", "cfg.custom", "cfg.twice", "cfg.text", "cfg.object", "cfg.item"}

\* JSON.parse and the checks on the parsed value: the list, or a throw
ParseConfig(content) ==
  IF content = "config" THEN [thrown |-> FALSE, folders |-> getDefaultFolders]
  ELSE IF content = "cfg.custom" THEN [thrown |-> FALSE, folders |-> CustomFolders]
  ELSE IF content = "cfg.twice" THEN [thrown |-> FALSE, folders |-> TwiceFolders]
  ELSE [thrown |-> TRUE, folders |-> <<>>]

RECURSIVE ensureFoldersExistIn(_, _, _)
ensureFoldersExistIn(cache, fs, i) ==
  IF i > Len(fs) THEN cache
  ELSE ensureFoldersExistIn(ensurePathExists(cache, fs[i].mapping, TRUE), fs, i + 1)

\* the cache after new MockFilesystemWrapper(config)
ConstructedWith(fs) ==
  ensureFoldersExistIn(
    Put(ensurePathExists(<<>>, rootPath, TRUE), configPath, FileEntry(StringifyConfig(fs))),
    fs, 1)

checkDefaultFoldersExist(cache) ==
  \E i \in DOMAIN getDefaultFolders : getDefaultFolders[i].mapping \in DOMAIN cache

ConfigLoadResult(fs, isValid) == [folders |-> fs, isValid |-> isValid]

\* loadFoldersFromConfig: the cache, this.folders and the result it returns
loadFoldersFromConfig(cache, current) ==
  IF configPath \notin DOMAIN cache
  THEN [cache |-> Put(ensureFoldersExistIn(cache, getDefaultFolders, 1), configPath,
                      FileEntry(StringifyConfig(getDefaultFolders))),
        folders |-> getDefaultFolders,
        result |-> ConfigLoadResult(getDefaultFolders, TRUE)]
  ELSE IF cache[configPath].isDirectory \/ ParseConfig(cache[configPath].content).thrown
  THEN [cache |-> cache,
        folders |-> current,
        result |-> ConfigLoadResult(
                     IF checkDefaultFoldersExist(cache) THEN getDefaultFolders ELSE <<>>,
                     FALSE)]
  ELSE [cache |-> ensureFoldersExistIn(cache, ParseConfig(cache[configPath].content).folders, 1),
        folders |-> ParseConfig(cache[configPath].content).folders,
        result |-> ConfigLoadResult(ParseConfig(cache[configPath].content).folders, TRUE)]

\* variant: a reload leaves this.folders to loadFoldersFromConfig
reloadConfigKeeping(cache, current) == loadFoldersFromConfig(cache, current)

\* reloadConfig: this.folders = result.folders
reloadConfig(cache, current) ==
  [loadFoldersFromConfig(cache, current) EXCEPT
     !.folders = loadFoldersFromConfig(cache, current).result.folders]

\* showInvalidConfigDialog, called when the result is not valid
InvalidConfigDialog(loaded) ==
  IF loaded.result.isValid THEN "none"
  ELSE IF Len(loaded.folders) > 0 THEN "warning" ELSE "error"

Configured(op, fs, good, result, dialog) ==
  [op |-> op, source |-> <<>>, target |-> <<>>, isFolder |-> FALSE,
   overwrite |-> FALSE, before |-> fileCache, replied |-> TRUE,
   success |-> result.isValid, error |-> NoError, done |-> FALSE, events |-> <<>>,
   folders |-> fs, good |-> good, previous |-> last.folders, result |-> result,
   dialog |-> dialog]

InitConfig ==
  /\ \E fs \in {getDefaultFolders, CustomFolders} :
       /\ fileCache = ConstructedWith(fs)
       /\ last = [op |-> "construct", source |-> <<>>, target |-> <<>>, isFolder |-> FALSE,
                  overwrite |-> FALSE, before |-> <<>>, replied |-> TRUE,
                  success |-> TRUE, error |-> NoError, done |-> FALSE, events |-> <<>>,
                  folders |-> fs, good |-> fs, previous |-> fs,
                  result |-> ConfigLoadResult(fs, TRUE), dialog |-> "none"]
  /\ prompts = {}
  /\ checked = NoCheck
  /\ activeFile = <<>>
  /\ currentSnippetFullPath = <<>>
  /\ heard = NoHeard
  /\ reloads = {}

ConfigLoaded(op, loaded) ==
  /\ fileCache' = loaded.cache
  /\ last' = Configured(op, loaded.folders,
                        IF loaded.result.isValid THEN loaded.folders ELSE last.good,
                        loaded.result, InvalidConfigDialog(loaded))
  /\ UNCHANGED <<prompts, checked, tracker>>

\* SnippetExplorerHandler.refresh
Refresh == \E loaded \in {reloadConfig(fileCache, last.folders)} : ConfigLoaded("refresh", loaded)

\* SnippetExplorerHandler.initializeStorage
InitializeStorage ==
  \E loaded \in {loadFoldersFromConfig(fileCache, last.folders)} :
    ConfigLoaded("initializeStorage", loaded)

\* the user saves config.json from the editor openConfig opened
ConfigEdited(content) ==
  /\ fileCache' = Put(fileCache, configPath, FileEntry(content))
  /\ last' = Configured("editConfig", last.folders, last.good, last.result, "none")
  /\ UNCHANGED <<prompts, checked, tracker>>

\* config.json is deleted
ConfigRemoved ==
  /\ configPath \in DOMAIN fileCache
  /\ fileCache' = Delete(fileCache, configPath)
  /\ last' = Configured("removeConfig", last.folders, last.good, last.result, "none")
  /\ UNCHANGED <<prompts, checked, tracker>>

NextConfig ==
  \/ Refresh
  \/ InitializeStorage
  \/ \E content \in ConfigContents : ConfigEdited(content)
  \/ ConfigRemoved

SpecConfig == InitConfig /\ [][NextConfig]_vars

\* --------------------------------------------------------------- claims
\* The claims speak about the command handled last: last holds what was
\* asked (source, target, isFolder, overwrite), the cache the handler found
\* (before) and what it replied; fileCache is the cache it left.
MoveOrCopy == last.op \in {"move", "copy"}

\* the destination path the handler computed for the command
LastDestination == Destination(last.source, last.target)

Rejected == last.replied /\ ~last.success

Untouched == fileCache = last.before /\ last.events = <<>>

\* the errors of the validation gates and of the overwrite negotiation
GateErrors ==
  {"top-level", "drop-root", "drop-file-root", "into-itself", "no-sort",
   "dest-missing", "dest-not-dir", "type-mismatch", "already-exists"}

C2_RootSourceRejected ==
  (/\ last.op \in {"move", "copy", "remove"}
   /\ isRootFolder(last.source))
  => (~last.done /\ fileCache = last.before)

\* C3: when a Move or Copy is rejected by a validation gate or by the
\* overwrite negotiation, the store is exactly as before the command and
\* no mutation event has been delivered.
C3_RejectedLeavesStore ==
  (MoveOrCopy /\ Rejected /\ last.error \in GateErrors) => Untouched

\* C3 witness: a Copy onto an occupied destination has been rejected by the
\* overwrite negotiation.
C3_Witness ==
  /\ last.op = "copy"
  /\ Rejected
  /\ last.error = "already-exists"
  /\ LastDestination # last.source
  /\ exists(fileCache, LastDestination)

\* an entry of the source's type occupied the computed destination
SameTypeAtDestination ==
  /\ exists(last.before, LastDestination)
  /\ isDirectory(last.before, LastDestination) = last.isFolder

\* an entry of the other type occupied the computed destination
OtherTypeAtDestination ==
  /\ exists(last.before, LastDestination)
  /\ isDirectory(last.before, LastDestination) # last.isFolder

\* the gates that come before the overwrite negotiation let the command pass
PassesEarlierGates ==
  IF last.op = "move"
  THEN /\ checkSourceAndDestinationPaths(last.source, last.target, last.isFolder) = NoError
       /\ checkSourceDestinationNotEqual(last.source, LastDestination, last.isFolder) = NoError
       /\ checkDestinationExistsAndIsDir(last.before, last.target) = NoError
  ELSE /\ ~isRootFolder(last.source)
       /\ ~(last.isFolder /\ (last.source = LastDestination
                               \/ StartsWithSep(LastDestination, last.source)))

C5_TypeMismatchRejected ==
  (MoveOrCopy /\ OtherTypeAtDestination) => (Rejected /\ ~last.done /\ Untouched)

\* C5 witness: a Move of a directory with the overwrite flag set onto a
\* file of the same name has been rejected as a type mismatch.
C5_Witness ==
  /\ last.op = "move"
  /\ last.isFolder
  /\ last.overwrite
  /\ OtherTypeAtDestination
  /\ Rejected
  /\ last.error = "type-mismatch"

\* the entry at an absolute path and everything below it, by relative suffix
Subtree(cache, abs) ==
  {<<SubSeq(p, Len(abs) + 1, Len(p)), cache[p]>> : p \in {q \in DOMAIN cache : IsPrefix(abs, q)}}

\* every check of the handler lets the command pass
PassesChecks ==
  IF last.op = "move"
  THEN MoveChecks(last.before, last.source, last.target, LastDestination,
                  last.isFolder, last.overwrite) = NoError
  ELSE CopyChecks(last.before, last.source, LastDestination,
                  last.isFolder, last.overwrite) = NoError

\* C6: when a Move or Copy that passes the checks runs with the overwrite
\* flag set onto a destination occupied by an entry of the same type, it
\* succeeds and the destination afterwards holds the source's content and
\* subtree and nothing of the previous destination entry.
C6_OverwriteReplaces ==
  (MoveOrCopy /\ last.overwrite /\ SameTypeAtDestination /\ PassesChecks)
  => /\ last.success
     /\ Subtree(fileCache, toAbsolutePath(LastDestination))
          = Subtree(last.before, toAbsolutePath(last.source))

\* C7: a Move of a file into the directory it already resides in is
\* rejected and leaves the store as it was.
C7_InPlaceMoveRejected ==
  (/\ last.op = "move"
   /\ ~last.isFolder
   /\ exists(last.before, last.source)
   /\ last.target = dirname(last.source))
  => (Rejected /\ fileCache = last.before)

\* C8: Move and Copy are rejected whenever the destination container does
\* not exist or is not a directory.
C8_ContainerGuard ==
  (/\ MoveOrCopy
   /\ \/ ~exists(last.before, last.target)
      \/ ~isDirectory(last.before, last.target))
  => (Rejected /\ fileCache = last.before)

\* a Move, Copy or Remove whose physical step returned normally
Carried == last.op \in {"move", "copy", "remove"} /\ last.done

\* C9 (as amended): a Move or Remove that carries out its physical step,
\* and a Copy that does so with the overwrite flag set, emits exactly one
\* event, which carries the affected path(s) and the isFolder flag: Moved
\* (old and new path) for a Move without the flag, Overwritten (destination)
\* for a Move or Copy with it, Removed (path) for a Remove; a Copy without
\* the overwrite flag emits no event.
C9_OneEventUnlessPlainCopy ==
  Carried =>
    IF last.op = "copy" /\ ~last.overwrite THEN last.events = <<>>
    ELSE /\ Len(last.events) = 1
         /\ last.events[1].isFolder = last.isFolder
         /\ IF last.op = "remove"
            THEN /\ last.events[1].type = "Removed"
                 /\ last.events[1].old = toAbsolutePath(last.source)
            ELSE IF last.overwrite
            THEN /\ last.events[1].type = "Overwrite"
                 /\ last.events[1].old = toAbsolutePath(LastDestination)
            ELSE /\ last.events[1].type = "Moved"
                 /\ last.events[1].old = toAbsolutePath(last.source)
                 /\ last.events[1].new = toAbsolutePath(LastDestination)

\* C9 as stated: every Move, Copy and Remove that carries out its physical
\* step emits exactly one event (Moved, Overwritten or Removed).
C9_ExactlyOneEvent ==
  Carried => /\ Len(last.events) = 1
             /\ last.events[1].type \in {"Moved", "Overwrite", "Removed"}

\* C9 witness: a Move with the overwrite flag set has replaced an existing
\* directory and told the listener once, with the destination path.
C9_Witness ==
  /\ last.op = "move"
  /\ last.isFolder
  /\ last.overwrite
  /\ SameTypeAtDestination
  /\ last.done
  /\ Len(last.events) = 1
  /\ last.events[1].type = "Overwrite"
  /\ last.events[1].old = toAbsolutePath(LastDestination)

\* C10: an event for a rename, move, remove or destructive overwrite (of
\* an entry below the roots) is delivered only once the store shows the
\* change it reports, and a command whose physical step failed has
\* delivered no event.
C10_EventAfterChange ==
  (last.op \in {"rename", "move", "copy", "remove"} /\ ~isRootFolder(last.source))
  => /\ \A i \in DOMAIN last.events : last.events[i].settled
     /\ ~last.done => last.events = <<>>

\* ------------------------------------------------- claims on the tracker
\* heard holds the tracker as the handler run found it and the signals the
\* run raised; activeFile and currentSnippetFullPath are what it left.
Count(seq, x) == Cardinality({i \in DOMAIN seq : seq[i] = x})

TrackerUnchanged == activeFile = heard.activeFile /\ currentSnippetFullPath = heard.current

\* the Remove whose confirmation the user declined: it replies success
\* without having carried out the removal
DeclinedRemove == last.op = "remove" /\ last.replied /\ last.success /\ ~last.done

\* C11: when the user declines the confirmation of a Remove, no event is
\* emitted, the store is unchanged and the tracker is unchanged.
C11_DeclinedRemoveChangesNothing ==
  DeclinedRemove
  => /\ last.events = <<>>
     /\ fileCache = last.before
     /\ TrackerUnchanged
     /\ heard.signals = <<>>

\* C11 witness: the Remove of the active document has been declined.
C11_Witness ==
  /\ DeclinedRemove
  /\ activeFile # <<>>
  /\ activeFile = toAbsolutePath(last.source)
  /\ exists(fileCache, last.source)

\* a rename that succeeded on a directory the active document was in
RenamedAround ==
  /\ last.op = "rename"
  /\ last.success
  /\ isDirectory(last.before, last.source)
  /\ StartsWithSep(heard.activeFile, toAbsolutePath(last.source))

\* the absolute path a rename gave to its source
RenamedTo == toAbsolutePath(Front(last.source) \o last.target)

\* C12: after a rename of a directory that contains the active document,
\* the active path is the old one with the old directory prefix replaced
\* by the new one and the suffix kept, and no close or warning is signalled.
C12_RenameRewritesActivePath ==
  RenamedAround
  => /\ activeFile = RenamedTo \o SubSeq(heard.activeFile,
                                         Len(toAbsolutePath(last.source)) + 1,
                                         Len(heard.activeFile))
     /\ Count(heard.signals, "close") = 0
     /\ Count(heard.signals, "warning") = 0

\* C12 witness: a directory holding the active document has been renamed
\* to another name and the active path follows it.
C12_Witness ==
  /\ RenamedAround
  /\ RenamedTo # toAbsolutePath(last.source)
  /\ exists(last.before, toRelativePath(heard.activeFile))
  /\ StartsWithSep(activeFile, RenamedTo)
  /\ exists(fileCache, toRelativePath(activeFile))

\* a confirmed Remove that deleted a directory the active document was in
RemovedAround ==
  /\ last.op = "remove"
  /\ last.done
  /\ last.isFolder
  /\ StartsWithSep(heard.activeFile, toAbsolutePath(last.source))

\* C13: after a Remove of a directory that contains the active document,
\* the tracker is Empty and the force-close signal has fired exactly once.
C13_RemoveAroundCloses ==
  RemovedAround => (activeFile = <<>> /\ Count(heard.signals, "close") = 1)

\* C13 witness: the directory holding the open document has been removed.
C13_Witness ==
  /\ RemovedAround
  /\ exists(last.before, toRelativePath(heard.activeFile))
  /\ ~exists(fileCache, last.source)
  /\ activeFile = <<>>

\* a Remove that told the listener: onNodeRemoved(node, isDir) has run
RemovedNode == toAbsolutePath(last.source)

ToldRemoved == last.op = "remove" /\ last.events # <<>>

\* the active path equals node, or isDir holds and it is nested under node
RemovalHitsActive ==
  /\ heard.activeFile # <<>>
  /\ \/ heard.activeFile = RemovedNode
     \/ last.isFolder /\ StartsWithSep(heard.activeFile, RemovedNode)

\* C14: on onNodeRemoved(node, isDir) the tracker becomes Empty and signals
\* force-close with warning exactly once when the active path equals node
\* (for either value of isDir) or isDir holds and the active path is nested
\* under node; in every other case the tracker is unchanged and nothing is
\* signalled.
C14_OnNodeRemoved ==
  ToldRemoved
  => IF RemovalHitsActive
     THEN /\ activeFile = <<>>
          /\ Count(heard.signals, "close") = 1
          /\ Count(heard.signals, "warning") = 1
     ELSE TrackerUnchanged /\ heard.signals = <<>>

\* the event the last handler run delivered first
Told == last.events[1]

ToldRenamedOrMoved == last.events # <<>> /\ Told.type \in {"Renamed", "Moved"}

\* the active path with the prefix old replaced by new
Rewritten(path, old, new) == new \o SubSeq(path, Len(old) + 1, Len(path))

\* C15: a rename or move event changes the tracker if and only if the entry
\* is not a directory and the active path equals old (it becomes new), or
\* the entry is a directory and the active path is strictly nested under
\* old (the old prefix is replaced by new); any other rename or move event
\* leaves the tracker unchanged and sends no notification.
C15_OnNodeRenamedOrMoved ==
  ToldRenamedOrMoved
  => IF ~Told.isFolder /\ heard.activeFile # <<>> /\ heard.activeFile = Told.old
     THEN activeFile = Told.new
     ELSE IF Told.isFolder /\ heard.activeFile # <<>>
             /\ StartsWithSep(heard.activeFile, Told.old)
     THEN activeFile = Rewritten(heard.activeFile, Told.old, Told.new)
     ELSE TrackerUnchanged /\ heard.signals = <<>>

\* C15 witness: a directory holding the open document has been moved and
\* the active path names the document at its new place.
C15_Witness ==
  /\ last.events # <<>>
  /\ Told.type = "Moved"
  /\ Told.isFolder
  /\ StartsWithSep(heard.activeFile, Told.old)
  /\ activeFile # heard.activeFile
  /\ StartsWithSep(activeFile, Told.new)
  /\ exists(fileCache, toRelativePath(activeFile))

ToldOverwrite == last.events # <<>> /\ Told.type = "Overwrite"

\* the Overwritten event addresses the active path or a directory it is in
OverwriteHitsActive ==
  /\ heard.activeFile # <<>>
  /\ \/ heard.activeFile = Told.old
     \/ Told.isFolder /\ StartsWithSep(heard.activeFile, Told.old)

\* C16: when an Overwritten event addresses the active path, or a directory
\* the active path is nested under: if the active document's entry no
\* longer exists the tracker becomes Empty and force-close is signalled; if
\* it still exists the tracker stays Active on the same path and a
\* reload-or-keep prompt is raised.
C16_OnNodeOverwrite ==
  (ToldOverwrite /\ OverwriteHitsActive)
  => IF exists(fileCache, toRelativePath(heard.activeFile))
     THEN activeFile = heard.activeFile /\ Count(heard.signals, "prompt") = 1
     ELSE activeFile = <<>> /\ Count(heard.signals, "close") = 1

\* an openFile message has been handled
Opened == last.op = "openFile"

\* the file the openFile message names can be read
OpenedReadable == ~readSnippetFails(last.before, last.source)

\* C17 (as amended): the tracker starts in Empty; an open(path) of a
\* readable snippet file, from Empty or from Active(any path), leaves the
\* tracker in Active(path); an open(path) that cannot read the file leaves
\* the active path as it was.
C17_OpenReadableActivates ==
  /\ activeFile = <<>>
  /\ [](Opened => IF OpenedReadable
                  THEN activeFile = toAbsolutePath(last.source)
                  ELSE activeFile = heard.activeFile)

\* C17 as stated: every open(path) leaves the tracker in Active(path).
C17_OpenActivates ==
  /\ activeFile = <<>>
  /\ [](Opened => activeFile = toAbsolutePath(last.source))

\* C17 witness: with one document active, another one has been opened and
\* is now the active one.
C17_Witness ==
  /\ Opened
  /\ OpenedReadable
  /\ heard.activeFile # <<>>
  /\ heard.activeFile # toAbsolutePath(last.source)
  /\ activeFile = toAbsolutePath(last.source)

\* C18: after an explicit close of the active document (the view's
\* closeSnippet message or the close command), the tracker is Empty.
C18_CloseEmpties ==
  (last.op \in {"closeSnippet", "close"}) => activeFile = <<>>

\* the move of the file Drafts/x.snippet to the root LocalSpace while
\* LocalSpace/x.snippet exists as a directory
MoveOntoDirectoryInRoot ==
  /\ last.op = "move"
  /\ last.source = <<"Drafts", "x.snippet">>
  /\ last.target = <<"LocalSpace">>
  /\ ~last.isFolder
  /\ exists(last.before, <<"Drafts", "x.snippet">>)
  /\ ~isDirectory(last.before, <<"Drafts", "x.snippet">>)
  /\ exists(last.before, <<"LocalSpace", "x.snippet">>)
  /\ isDirectory(last.before, <<"LocalSpace", "x.snippet">>)

\* C19 (as amended): with roots Drafts and LocalSpace, moving the file
\* Drafts/x.snippet to LocalSpace while LocalSpace/x.snippet exists as a
\* directory is rejected, whether overwrite is false or true, and the store
\* is left as it was; the error is the root-boundary one (a root is no drop
\* target), the type-mismatch check is not reached.
C19_MoveOntoDirectoryRejected ==
  MoveOntoDirectoryInRoot =>
    /\ Rejected
    /\ Untouched
    /\ last.error = "drop-root"

\* C19 as stated: the move is rejected with a type-mismatch error.
C19_MoveOntoDirectoryTypeMismatch ==
  MoveOntoDirectoryInRoot => Rejected /\ last.error = "type-mismatch"

\* C19 witness: the move was asked for with the overwrite flag and rejected.
C19_Witness ==
  /\ MoveOntoDirectoryInRoot
  /\ last.overwrite
  /\ Rejected
  /\ last.error = "drop-root"

\* the files below a directory: relative path and content of each
FilesUnder(cache, abs) ==
  {<<SubSeq(p, Len(abs) + 1, Len(p)), cache[p].content>> :
     p \in {q \in DOMAIN cache : StartsWithSep(q, abs) /\ ~cache[q].isDirectory}}

\* a copy of a directory has succeeded
CopiedFolder ==
  /\ last.op = "copy"
  /\ last.isFolder
  /\ last.success
  /\ isDirectory(last.before, last.source)

CopySource == toAbsolutePath(last.source)
CopyDestination == toAbsolutePath(Destination(last.source, last.target))

\* C20: after a successful copy of a directory that held N files, the
\* destination directory holds exactly the same N files, at the same
\* relative paths and with the same content.
C20_CopyKeepsFiles ==
  CopiedFolder =>
    /\ isDirectory(fileCache, Destination(last.source, last.target))
    /\ FilesUnder(fileCache, CopyDestination) = FilesUnder(last.before, CopySource)

\* C20 witness: a directory with three files at two depths and of unlike
\* content has been copied over an existing directory that held another file.
C20_Witness ==
  /\ CopiedFolder
  /\ last.overwrite
  /\ Cardinality(FilesUnder(last.before, CopySource)) = 3
  /\ Cardinality({f[2] : f \in FilesUnder(last.before, CopySource)}) = 2
  /\ FilesUnder(last.before, CopyDestination) # {}
  /\ FilesUnder(fileCache, CopyDestination) = FilesUnder(last.before, CopySource)

\* ---------------------------------------------------- claims on the store

\* the store's rename(src, dst) has run on a directory and returned: the
\* rename command calls it with the sibling path, Move with the destination
RenamedDirectory ==
  /\ last.op \in {"rename", "move"}
  /\ last.success
  /\ exists(last.before, last.source)
  /\ isDirectory(last.before, last.source)

RenameSrc == toAbsolutePath(last.source)
RenameDst ==
  toAbsolutePath(IF last.op = "rename" THEN dirname(last.source) \o last.target
                 ELSE Destination(last.source, last.target))

\* every entry at src followed by a suffix is at dst followed by that suffix
Relocated(before, after, src, dst) ==
  \A p \in DOMAIN before :
    IsPrefix(src, p) =>
      LET q == dst \o SubSeq(p, Len(src) + 1, Len(p))
      IN  q \in DOMAIN after /\ after[q] = before[p]

NothingAtOrUnder(cache, src) == \A q \in DOMAIN cache : ~IsPrefix(src, q)

\* C21: after rename(src, dst) of a directory, every entry that was at src
\* followed by some suffix is at dst followed by the same suffix with
\* unchanged content, and no entry remains at or under src.
C21_RenameRelocatesSubtree ==
  RenamedDirectory =>
    /\ Relocated(last.before, fileCache, RenameSrc, RenameDst)
    /\ NothingAtOrUnder(fileCache, RenameSrc)

\* a call of remove(path, recursive) on a directory that is not empty
RemoveOfNonEmptyDirectory ==
  /\ last.op = "store.remove"
  /\ exists(last.before, last.source)
  /\ isDirectory(last.before, last.source)
  /\ Children(last.before, toAbsolutePath(last.source)) # {}

\* what is left once a directory and every descendant are removed
Removed(before, rel) == Without(before, toAbsolutePath(rel))

\* C22: remove(path, recursive) on a non-empty directory fails and removes
\* nothing when recursive is false, and removes the directory together with
\* every descendant when recursive is true; in both implementations.
C22_RemoveNonEmptyDirectory ==
  RemoveOfNonEmptyDirectory =>
    IF last.isFolder
    THEN /\ last.success /\ fileCache = Removed(last.before, last.source)
         /\ last.disk.ok /\ last.disk.cache = Removed(last.before, last.source)
    ELSE /\ ~last.success /\ fileCache = last.before
         /\ ~last.disk.ok /\ last.disk.cache = last.before

\* the parents of the path, below the root path
Parents(rel) ==
  {SubSeq(toAbsolutePath(rel), 1, n) : n \in 1..(Len(toAbsolutePath(rel)) - 1)}

\* the path written is that of an existing directory
WrittenOverDirectory ==
  exists(last.before, last.source) /\ isDirectory(last.before, last.source)

\* C23: writeFile creates any missing parent directories of the target path
\* before writing, while readFile, exists and stat never create any entry;
\* in both implementations.
C23_WriteCreatesParents ==
  /\ (last.op = "store.writeFile" /\ ~WrittenOverDirectory) =>
       /\ last.success
       /\ \A q \in Parents(last.source) : q \in DOMAIN fileCache
       /\ fileCache[toAbsolutePath(last.source)] = FileEntry(last.data)
       /\ last.disk.ok
       /\ \A q \in Parents(last.source) : q \in DOMAIN last.disk.cache
       /\ last.disk.cache[toAbsolutePath(last.source)] = FileEntry(last.data)
  /\ last.op \in {"store.readFile", "store.exists", "store.stat"} =>
       fileCache = last.before /\ last.disk.cache = last.before

\* C24: for every sequence of store operations applied to equal initial
\* trees, the disk-backed and the in-memory implementation return the same
\* results, fail in the same cases, and end with the same tree.
C24_StoresAgree ==
  (last # Idle) => StoreAgree

\* --------------------------------------------------- claims on the paths

\* the '..' parts never step above the root the path starts at
RECURSIVE StaysBelow(_, _)
StaysBelow(parts, depth) ==
  IF parts = <<>> THEN TRUE
  ELSE IF Head(parts) = "." THEN StaysBelow(Tail(parts), depth)
  ELSE IF Head(parts) = ".." THEN depth > 0 /\ StaysBelow(Tail(parts), depth - 1)
  ELSE StaysBelow(Tail(parts), depth + 1)

ResolverRan == last.op = "toAbsolutePath"

\* a well-formed virtual path under one of the roots
WellFormed ==
  /\ \E i \in DOMAIN last.folders : last.folders[i].folder = last.source[1]
  /\ StaysBelow(Tail(last.source), 0)

\* normalize(p) of a virtual path: the root name, then the resolved rest
Normalized(parts) == <<parts[1]>> \o normalizePath(Tail(parts))

\* no root's physical path is another root's, or lies inside it
RootsApart(fs) ==
  \A i, j \in DOMAIN fs : i # j => ~IsPrefix(fs[i].mapping, fs[j].mapping)

\* C25 (as amended): for every configured set of roots in which no root's
\* physical path equals or lies inside another root's, and every well-formed
\* virtual path p under one of them, toRelative(toAbsolute(p)) equals
\* normalize(p).
C25_RoundTripRootsApart ==
  (ResolverRan /\ WellFormed /\ RootsApart(last.folders))
    => last.success /\ last.relative = Normalized(last.source)

\* C25 as stated: for every configured set of roots.
C25_RoundTrip ==
  (ResolverRan /\ WellFormed) => last.success /\ last.relative = Normalized(last.source)

\* C25 witness: a path with a '..' part, under a root named unlike its
\* directory, has come back in normal form.
C25_Witness ==
  /\ ResolverRan
  /\ WellFormed
  /\ last.folders[1].folder = "Work"
  /\ last.source = <<"Work", "a", "..", "a">>
  /\ last.relative = <<"Work", "a">>

\* C26: every virtual path accepted by the resolver resolves to a physical
\* path inside the physical subtree of the root named by its first segment;
\* a path whose '..' segments would leave that subtree is not permitted.
C26_ResolvesInsideRoot ==
  (ResolverRan /\ last.success)
    => IsPrefix(last.folders[FindFolderIn(last.folders, last.source[1])].mapping,
                last.absolute)

\* ------------------------------------------- claims on the configuration

\* a load or reload of the configuration has run
LoadedConfig == last.op \in {"refresh", "initializeStorage"}

\* C27: after any configuration load or reload, the names in the root
\* mapping list are pairwise distinct, so every virtual path resolves to
\* exactly one root or is invalid.
C27_RootNamesDistinct ==
  LoadedConfig =>
    \A i, j \in DOMAIN last.folders :
      last.folders[i].folder = last.folders[j].folder => i = j

\* C28 (as amended): after reloading a configuration that fails to parse or
\* has the wrong shape, the root set in effect is the built-in default set
\* when at least one default folder exists and the empty set otherwise;
\* after the load at the handler's start it is the set that was in effect
\* before.  A warning is shown when the set in effect is not empty, an
\* error when it is empty.
C28_InvalidConfigFallsBack ==
  (LoadedConfig /\ ~last.result.isValid) =>
    /\ last.folders =
         IF last.op = "initializeStorage" THEN last.previous
         ELSE IF checkDefaultFoldersExist(last.before) THEN getDefaultFolders
         ELSE <<>>
    /\ last.dialog = IF last.folders # <<>> THEN "warning" ELSE "error"

\* C28 as stated: the root set in effect is the last-known-good set or the
\* built-in default set, and a warning is surfaced.
C28_LastGoodOrDefault ==
  (LoadedConfig /\ ~last.result.isValid) =>
    /\ last.folders \in {last.good, getDefaultFolders}
    /\ last.dialog # "none"

\* C28 witness: with custom roots in effect and a default folder on disk, a
\* configuration that does not parse has been reloaded: the defaults are in
\* effect and the warning is shown.
C28_Witness ==
  /\ last.op = "refresh"
  /\ ~last.result.isValid
  /\ last.previous = CustomFolders
  /\ last.folders = getDefaultFolders
  /\ last.dialog = "warning"

\* ------------------------------------------ claims on the tracked document

\* the file the tracker is Active on, as a path below the roots
ActivePath == toRelativePath(activeFile)

\* no reload prompt is unanswered, and the last step was not the answer
\* 'Keep Current'
NoPromptOpenOrKept == reloads = {} /\ (last = Idle \/ last.op # "keep")

\* C29: after any sequence of open, close, rename, move, copy and remove
\* commands, whenever the tracker is Active(p) and no overwrite prompt for p
\* is unanswered or was answered 'keep', p names a file that exists in the
\* store.
C29_ActiveNamesFile ==
  (activeFile # <<>> /\ NoPromptOpenOrKept) =>
    /\ exists(fileCache, ActivePath)
    /\ ~isDirectory(fileCache, ActivePath)

\* ------------------------------------------------------- claims on Move

\* a Move command has run on an entry of the store
MoveRan ==
  /\ last # Idle
  /\ last.op = "move"
  /\ exists(last.before, last.source)

MoveSource == toAbsolutePath(last.source)
MoveDestination == toAbsolutePath(Destination(last.source, last.target))

\* C30: after any Move command, whether it reports success or failure and
\* whatever the overwrite flag, the content of the source entry still exists
\* in the store: at the source path if the command reported failure, at the
\* destination path if it reported success.
C30_MoveKeepsContent ==
  MoveRan =>
    Relocated(last.before, fileCache, MoveSource,
              IF last.success THEN MoveDestination ELSE MoveSource)

\* ------------------------------------------------------- claims on Copy

\* a Copy command has run on an entry of the store
CopyRan ==
  /\ last # Idle
  /\ last.op = "copy"
  /\ exists(last.before, last.source)

\* C31: a Copy command never deletes or modifies the source entry or any of
\* its descendants, whether it succeeds or fails and whatever the overwrite
\* flag and target folder.
C31_CopyKeepsSource ==
  CopyRan => Relocated(last.before, fileCache, CopySource, CopySource)

\* a successful Move whose source is the active document or a directory
\* containing it
MovedActive ==
  /\ last.op = "move"
  /\ last.success
  /\ heard.activeFile # <<>>
  /\ \/ ~last.isFolder /\ heard.activeFile = MoveSource
     \/ last.isFolder /\ StartsWithSep(heard.activeFile, MoveSource)

\* C32: after any successful Move, with or without the overwrite flag, whose
\* source is the active document or a directory containing it, the tracker
\* is Active at the corresponding path under the destination.
C32_MoveCarriesTracker ==
  MovedActive => activeFile = Rewritten(heard.activeFile, MoveSource, MoveDestination)

\* ----------------------------------------------- claims on pending prompts

\* the prompt of a Remove whose target is no longer in the store is
\* confirmed
ConfirmedOnMissing ==
  \E pr \in prompts : ~exists(fileCache, pr.fullPath) /\ RemoveAnswer(pr, "Yes")

\* C33: if the target of a Remove command is deleted or moved away by
\* another command while its confirmation prompt is pending, then confirming
\* the prompt deletes nothing, reports failure to the caller, emits no
\* Removed event and leaves the tracker unchanged.
C33_ConfirmOnMissingTarget ==
  [][ConfirmedOnMissing =>
        /\ fileCache' = fileCache
        /\ ~last'.success
        /\ last'.events = <<>>
        /\ UNCHANGED tracker]_vars

\* C34: an answer to an overwrite reload-or-keep prompt affects only the
\* document for which the prompt was raised: if that document has been
\* closed or a different document opened before the answer arrives,
\* answering 'Reload' leaves the tracker's current state unchanged;
\* otherwise the tracker stays Active on the same path.
C34_ReloadAnswerOnlyPrompted ==
  [][\A r \in reloads :
       ReloadAnswer(r, "Reload") =>
         IF activeFile # toAbsolutePath(r)
         THEN UNCHANGED <<activeFile, currentSnippetFullPath>>
         ELSE activeFile' = activeFile]_vars

\* C35: after any sequence of operations, the tracker's active path and the
\* session's current-document path are either both empty or both denote the
\* same node.
C35_TrackerAndSessionAgree ==
  activeFile = currentSnippetFullPath

\* a Move of an existing non-root entry into an existing directory that is
\* not its current parent and not inside its own subtree, with no entry at
\* the computed destination path
PlainMove ==
  /\ MoveRan
  /\ ~isRootFolder(last.source)
  /\ last.isFolder = isDirectory(last.before, last.source)
  /\ exists(last.before, last.target)
  /\ isDirectory(last.before, last.target)
  /\ last.target # dirname(last.source)
  /\ ~IsPrefix(MoveSource, toAbsolutePath(last.target))
  /\ ~exists(last.before, Destination(last.source, last.target))

\* the move is done: the entry is at the destination and gone from the source
MoveDone ==
  /\ last.success
  /\ Relocated(last.before, fileCache, MoveSource, MoveDestination)
  /\ NothingAtOrUnder(fileCache, MoveSource)

\* C37: a Move of an existing non-root file or directory into an existing
\* directory that is not its current parent and not inside its own subtree,
\* with no entry at the computed destination path, succeeds: afterwards the
\* entry is at the destination path and absent from the source path.  (A
\* root as the destination directory is left aside: the root-boundary guard
\* of Move rejects it.)
C37_PlainMoveSucceeds ==
  (PlainMove /\ ~isRootFolder(last.target)) => MoveDone

\* ---------------------------------------------------- claims on callbacks

\* a command that carries a callbackId has been handled (a remove once its
\* prompt has been answered)
Commanded ==
  last.op \in {"ready", "expand", "rename", "move", "copy", "remove",
               "createFolder", "createSnippet", "checkDestination"}

\* C36: every command that carries a callbackId is answered by exactly one
\* onCallback reply with that callbackId, on success paths and on every
\* failure path (for remove, once the confirmation prompt has been
\* answered).
C36_EveryCommandAnswered ==
  Commanded => last.replied

\* ------------------------------------------------------ claims on the tree

\* a rename, move, copy or remove command has run
Mutated == last.op \in {"rename", "move", "copy", "remove"}

\* C38: no sequence of rename, move, copy and remove commands deletes,
\* renames or relocates a configured root folder: after every command each
\* root still exists as a directory at its mapped physical path under its
\* configured name.
C38_RootsStay ==
  Mutated =>
    \A i \in DOMAIN folders :
      /\ folders[i].mapping \in DOMAIN fileCache
      /\ fileCache[folders[i].mapping].isDirectory

\* C39: after any sequence of commands on the in-memory store, every entry
\* below a root has a parent entry that exists and is a directory (no
\* orphaned entries and no entries beneath a file).
C39_NoOrphans ==
  \A p \in DOMAIN fileCache :
    (\E i \in DOMAIN folders : StartsWithSep(p, folders[i].mapping)) =>
      /\ Front(p) \in DOMAIN fileCache
      /\ fileCache[Front(p)].isDirectory

====
